---- MODULE Spec2Model ----
(***************************************************************************)
(* qnap-vm: remote VM orchestration over SSH + virsh.                      *)
(*                                                                         *)
(* The model has two parts.                                                *)
(*  - The remote host (domains known to the hypervisor, disk images, the   *)
(*    transient /tmp/<name>.xml files, the storage pools) and the CLI      *)
(*    commands of cmd/root.go that drive it through virsh.Client and       *)
(*    storage.Manager.  Every remote command is one step, so that two      *)
(*    callers can interleave between the commands of an operation.         *)
(*  - The pure pool ranking of storage.Manager.GetBestPool, applied to     *)
(*    arbitrary pool lists.                                                *)
(*                                                                         *)
(* A remote command that returns an error has had no effect on the host;   *)
(* any remote command may return an error (ssh.Client.Execute reports      *)
(* session and exit-status failures alike).                                *)
(***************************************************************************)
EXTENDS Integers, Sequences, FiniteSets, TLC

\* ------------------------------------------------------------------ bounds

\* Longest pool list handed to the ranking, and largest free space (GB).
MaxPools == 3
MaxFree == 2

\* ------------------------------------------------------------- vocabulary

Names == {"alpha", "beta"}
Callers == {1, 2}

\* State column of `virsh list --all`; "absent" stands for a name with no row.
StateTokens == {"shut off", "running", "paused"}
Absent == "absent"

PoolTypes == {"CACHEDEV", "ZFS", "USB"}

\* strings.Contains(state, sub) over StateTokens: no token is a proper
\* superstring of another, so containment of a token is equality with it.
Contains(state, sub) == state = sub

VARIABLES
    vms,        \* host: name -> state token, or Absent
    disks,      \* host: set of <<pool name, vm name>>: existing qcow2 images
    xmlFiles,   \* host: names n for which /tmp/n.xml exists
    hostPools,  \* host: the storage pools, in discovery order
    pc,         \* caller -> position in its CLI command
    op,         \* caller -> the CLI command it runs
    res,        \* caller -> result of the command ("none" while running)
    cmds,       \* caller -> remote commands issued by the command so far
    loc,        \* caller -> local variables of the command
    pre,        \* caller -> host state when the command started
    poolIn,     \* ranking: the pool list handed to GetBestPool
    poolOut,    \* ranking: index of the selected pool, 0 = error, -1 = not run
    fnArg,      \* a function taken alone: [fn, ...] its name and its inputs
    fnOut       \* a function taken alone: [done, ...] and what it returned

hostVars == <<vms, disks, xmlFiles, hostPools>>
callerVars == <<pc, op, res, cmds, loc, pre>>
poolVars == <<poolIn, poolOut>>
fnVars == <<fnArg, fnOut>>
vars == <<vms, disks, xmlFiles, hostPools, pc, op, res, cmds, loc, pre, poolIn, poolOut,
          fnArg, fnOut>>

\* ------------------------------------------------- storage.Manager (pure)

Pool(name, type, free, available) ==
    [name |-> name, type |-> type, free |-> free, available |-> available]

ReplaceBest_bySpace(pool, best) ==
    \/ pool.type = "CACHEDEV" /\ best.type # "CACHEDEV"
    \/ pool.type = "ZFS" /\ best.type = "USB"
    \/ pool.free > best.free

ReplaceBest_orEqual(pool, best) ==
    \/ pool.type = "CACHEDEV" /\ best.type # "CACHEDEV"
    \/ pool.type = "ZFS" /\ best.type = "USB"
    \/ pool.type = best.type /\ pool.free >= best.free

\* The replacement test of the selection loop.
ReplaceBest(pool, best) ==
    \/ pool.type = "CACHEDEV" /\ best.type # "CACHEDEV"
    \/ pool.type = "ZFS" /\ best.type = "USB"
    \/ pool.type = best.type /\ pool.free > best.free

RECURSIVE BestIdx(_, _, _)
\* The loop `for i := range pools`; best = 0 is bestPool == nil.
BestIdx(pools, i, best) ==
    IF i > Len(pools) THEN best
    ELSE IF ~pools[i].available THEN BestIdx(pools, i + 1, best)
    ELSE IF best = 0 THEN BestIdx(pools, i + 1, i)
    ELSE IF ReplaceBest(pools[i], pools[best]) THEN BestIdx(pools, i + 1, i)
    ELSE BestIdx(pools, i + 1, best)

\* Index of the selected pool; 0 when GetBestPool returns an error.
GetBestPool(pools) ==
    IF Len(pools) = 0 THEN 0 ELSE BestIdx(pools, 1, 0)

DetectPools_failFast(cfg, probeOk, dfOk) ==
    IF \E t \in {"CACHEDEV", "ZFS", "USB"} : ~probeOk[t] THEN <<>> ELSE cfg

\* DetectPools: the three probes in the order cache, ZFS, USB; a failed probe
\* contributes nothing; a failed df leaves the capacity at zero.
DetectPools(cfg, probeOk, dfOk) ==
    LET found == SelectSeq(cfg, LAMBDA p : probeOk[p.type])
    IN  [i \in 1..Len(found) |->
            IF dfOk[found[i].name] THEN found[i]
            ELSE [found[i] EXCEPT !.free = 0]]

\* CreateVMDiskPath: <pool.Path>/.qnap-vm/disks/<vmName>.qcow2.
CreateVMDiskPath(pool, vmName) == <<pool.name, vmName>>


\* ------------------------------------------------------- caller framework

Idle == "idle"
Done == "done"

NoLoc == [state |-> "notfound", pool |-> "none", wasRunning |-> FALSE,
          manual |-> FALSE, phase |-> "none"]
NoOp == [kind |-> "none", name |-> "none", target |-> "none",
         force |-> FALSE, confirm |-> FALSE, linked |-> FALSE]
NoPre == [vms |-> [n \in Names |-> Absent], disks |-> {}, xmlFiles |-> {}]
NoArg == [fn |-> "none"]
NoOut == [done |-> FALSE]

HostNow == [vms |-> vms, disks |-> disks, xmlFiles |-> xmlFiles]

\* One remote command: what was run, on what, and whether Execute returned nil.
\* mkdir, domuuid and dominfo change nothing on the host and their error is
\* discarded by the caller: they are recorded as run, with no outcome.
Cmd(verb, arg, ok) == [verb |-> verb, arg |-> arg, ok |-> ok]

\* Caller p may start a command: it is between commands.  With `alone` the
\* host has the single caller of a one-shot CLI invocation; without it every
\* caller may start while another is inside a command.
FirstCaller == CHOOSE p \in Callers : \A q \in Callers : p <= q

MayBegin(p, alone) ==
    /\ pc[p] = Idle
    /\ alone => p = FirstCaller

Begin(p, o) ==
    /\ op' = [op EXCEPT ![p] = o]
    /\ pre' = [pre EXCEPT ![p] = HostNow]

Issue(p, c) == cmds' = [cmds EXCEPT ![p] = Append(@, c)]

Goto(p, label) == pc' = [pc EXCEPT ![p] = label] /\ UNCHANGED res

Return(p, r) == pc' = [pc EXCEPT ![p] = Done] /\ res' = [res EXCEPT ![p] = r]

\* ------------------------------------------------------ virsh.Client reads

\* GetVM over one `virsh list --all`: "error" when the command failed,
\* "notfound" when no row has the name, else the row's state.
GetVM(name, ok) ==
    IF ~ok THEN "error"
    ELSE IF vms[name] = Absent THEN "notfound"
    ELSE vms[name]

Found(got) == got \notin {"error", "notfound"}

\* ------------------------------------------------- effects on the remote host

\* virsh start: an inactive domain becomes "running".
CanStart(name) == vms[name] = "shut off"

\* virsh shutdown / destroy act on an active domain only.
CanStop(name) == vms[name] \in {"running", "paused"}

\* States a domain can be in once the stop verb has returned success: destroy
\* ends it at once, shutdown only asks the guest, which may not have acted yet.
AfterStop(name, verb) ==
    IF verb = "destroy" THEN {"shut off"} ELSE {"shut off", vms[name]}

\* virsh define /tmp/<name>.xml: needs the file, and no domain of that name
\* (the generated document carries no UUID, so an existing name is a conflict).
CanDefine(name) == name \in xmlFiles /\ vms[name] = Absent

\* virsh undefine: needs the domain.
CanUndefine(name) == vms[name] # Absent

\* ------------------------------------------------------------ virsh.Client

StopVerb_swapped(force) == IF force THEN "shutdown" ELSE "destroy"

\* StopVM: the verb chosen by the force flag.
StopVerb(force) == IF force THEN "destroy" ELSE "shutdown"

AlreadyRunning_never(state) == FALSE

\* startCmd's no-op test on the listed state.
AlreadyRunning(state) == Contains(state, "running")

AlreadyStopped_never(state) == FALSE

\* stopCmd's no-op test on the listed state.
AlreadyStopped(state) == Contains(state, "shut off")

DeleteTargetFound_always(got) == TRUE

\* deleteCmd's existence test: `_, err = GetVM(name); if err != nil`.
DeleteTargetFound(got) == Found(got)

\* createCmd's existence test: `if _, err := GetVM(name); err == nil`.
ExistsCheck(got) == Found(got)


\* Name of the VM that CreateVM, StartVM and StopVM act on inside command o:
\* clone creates the target and stops / restarts the source.
CreatedName(o) == IF o.kind = "clone" THEN o.target ELSE o.name

\* Force flag StopVM is called with: the caller's flag in stopCmd, always true
\* in DeleteVM, always false in manualCloneVM.
StopForce(o) ==
    IF o.kind = "delete" THEN TRUE
    ELSE IF o.kind = "clone" THEN FALSE
    ELSE o.force

AfterStopVM_abort(p, ok) ==
    IF ~ok THEN Return(p, "StopFailed")
    ELSE IF op[p].kind = "delete" THEN Goto(p, "undefine")
    ELSE IF op[p].kind = "clone" THEN Goto(p, "CreateVM_write")
    ELSE Return(p, "ok")

\* What follows a StopVM call, by caller and outcome.
AfterStopVM(p, ok) ==
    IF op[p].kind = "delete" THEN Goto(p, "undefine")
    ELSE IF ~ok THEN Return(p, "StopFailed")
    ELSE IF op[p].kind = "clone" THEN Goto(p, "CreateVM_write")
    ELSE Return(p, "ok")

\* What follows a StartVM call.
AfterStartVM(p, ok) ==
    IF ~ok THEN Return(p, "StartFailed")
    ELSE IF op[p].kind = "clone" THEN Goto(p, "show_list")
    ELSE Return(p, "ok")

\* What follows a successful CreateVM call: createCmd is finished; a manual
\* clone restarts the source it stopped; a clone then shows the new VM.
AfterCreateVM(p) ==
    IF op[p].kind = "create" THEN Return(p, "ok")
    ELSE IF loc[p].manual /\ loc[p].wasRunning THEN Goto(p, "StartVM")
    ELSE Goto(p, "show_list")

\* ----------------------------------------------------------------- startCmd

startCmd(p, alone) ==
    /\ MayBegin(p, alone)
    /\ \E n \in Names, ok \in BOOLEAN :
        LET got == GetVM(n, ok) IN
        /\ Begin(p, [NoOp EXCEPT !.kind = "start", !.name = n])
        /\ Issue(p, Cmd("list", "", ok))
        /\ loc' = [loc EXCEPT ![p].state = got]
        /\ IF ~Found(got) THEN Return(p, "NotFound")
           ELSE IF AlreadyRunning(got) THEN Return(p, "ok")
           ELSE Goto(p, "StartVM")
    /\ UNCHANGED <<hostVars, poolVars, fnVars>>

StartVM(p) ==
    /\ pc[p] = "StartVM"
    /\ \E ok \in BOOLEAN :
        /\ ok => CanStart(op[p].name)
        /\ Issue(p, Cmd("start", op[p].name, ok))
        /\ vms' = IF ok THEN [vms EXCEPT ![op[p].name] = "running"] ELSE vms
        /\ AfterStartVM(p, ok)
    /\ UNCHANGED <<disks, xmlFiles, hostPools, op, loc, pre, poolVars, fnVars>>

\* ------------------------------------------------------------------ stopCmd

stopCmd(p, alone) ==
    /\ MayBegin(p, alone)
    /\ \E n \in Names, force \in BOOLEAN, ok \in BOOLEAN :
        LET got == GetVM(n, ok) IN
        /\ Begin(p, [NoOp EXCEPT !.kind = "stop", !.name = n, !.force = force])
        /\ Issue(p, Cmd("list", "", ok))
        /\ loc' = [loc EXCEPT ![p].state = got]
        /\ IF ~Found(got) THEN Return(p, "NotFound")
           ELSE IF AlreadyStopped(got) THEN Return(p, "ok")
           ELSE Goto(p, "StopVM")
    /\ UNCHANGED <<hostVars, poolVars, fnVars>>

StopVM(p) ==
    /\ pc[p] = "StopVM"
    /\ LET n == op[p].name
           verb == StopVerb(StopForce(op[p]))
       IN \E ok \in BOOLEAN :
            /\ ok => CanStop(n)
            /\ Issue(p, Cmd(verb, n, ok))
            /\ IF ok THEN \E s \in AfterStop(n, verb) : vms' = [vms EXCEPT ![n] = s]
               ELSE vms' = vms
            /\ AfterStopVM(p, ok)
    /\ UNCHANGED <<disks, xmlFiles, hostPools, op, loc, pre, poolVars, fnVars>>

\* ---------------------------------------------------------------- deleteCmd

\* The confirmation of deleteCmd: proceed when forced or answered "y"/"yes".
Confirmed(o) == o.force \/ o.confirm

deleteCmd(p, alone) ==
    /\ MayBegin(p, alone)
    /\ \E n \in Names, force \in BOOLEAN, answer \in BOOLEAN, ok \in BOOLEAN :
        LET got == GetVM(n, ok)
            o == [NoOp EXCEPT !.kind = "delete", !.name = n, !.force = force,
                              !.confirm = answer /\ ~force]
        IN
        /\ Begin(p, o)
        /\ Issue(p, Cmd("list", "", ok))
        /\ loc' = [loc EXCEPT ![p].state = got]
        /\ IF ~DeleteTargetFound(got) THEN Return(p, "NotFound")
           ELSE IF ~Confirmed(o) THEN Return(p, "ok")
           ELSE Goto(p, "StopVM")
    /\ UNCHANGED <<hostVars, poolVars, fnVars>>

\* DeleteVM after its StopVM(name, true): undefine decides the result.
DeleteVM_undefine(p) ==
    /\ pc[p] = "undefine"
    /\ \E ok \in BOOLEAN :
        /\ ok => CanUndefine(op[p].name)
        /\ Issue(p, Cmd("undefine", op[p].name, ok))
        /\ vms' = IF ok THEN [vms EXCEPT ![op[p].name] = Absent] ELSE vms
        /\ Return(p, IF ok THEN "ok" ELSE "DeleteFailed")
    /\ UNCHANGED <<disks, xmlFiles, hostPools, op, loc, pre, poolVars, fnVars>>

\* ---------------------------------------------------------------- createCmd

createCmd(p, alone) ==
    /\ MayBegin(p, alone)
    /\ \E n \in Names, ok \in BOOLEAN :
        LET got == GetVM(n, ok) IN
        /\ Begin(p, [NoOp EXCEPT !.kind = "create", !.name = n])
        /\ Issue(p, Cmd("list", "", ok))
        /\ loc' = [loc EXCEPT ![p].state = got]
        /\ IF ExistsCheck(got) THEN Return(p, "AlreadyExists")
           ELSE Goto(p, "GetBestPool")
    /\ UNCHANGED <<hostVars, poolVars, fnVars>>

PoolNames == {hostPools[i].name : i \in 1..Len(hostPools)}

createCmd_GetBestPool(p) ==
    /\ pc[p] = "GetBestPool"
    /\ \E probeOk \in [PoolTypes -> BOOLEAN], dfOk \in [PoolNames -> BOOLEAN] :
        LET pools == DetectPools(hostPools, probeOk, dfOk)
            best == GetBestPool(pools)
        IN
        /\ Issue(p, Cmd("probe", "", TRUE))
        /\ IF best = 0
           THEN Return(p, "NoPool") /\ UNCHANGED loc
           ELSE /\ loc' = [loc EXCEPT ![p].pool = pools[best].name]
                /\ Goto(p, "CreateVMDiskPath")
    /\ UNCHANGED <<hostVars, op, pre, poolVars, fnVars>>

\* mkdir -p of the disk directory; its failure is ignored.
createCmd_CreateVMDiskPath(p) ==
    /\ pc[p] = "CreateVMDiskPath"
    /\ Issue(p, Cmd("mkdir", loc[p].pool, TRUE))
    /\ Goto(p, "CreateVMDisk_test")
    /\ UNCHANGED <<hostVars, op, loc, pre, poolVars, fnVars>>

\* CreateVMDisk, first half: look for qemu-img under /QVS and /KVM.
CreateVMDisk_test(p) ==
    /\ pc[p] = "CreateVMDisk_test"
    /\ \E found \in BOOLEAN :
        /\ Issue(p, Cmd("test-qemu-img", "", found))
        /\ IF found THEN Goto(p, "CreateVMDisk_create")
           ELSE Return(p, "DiskFailed")
    /\ UNCHANGED <<hostVars, op, loc, pre, poolVars, fnVars>>

\* CreateVMDisk, second half: qemu-img create -f qcow2 <path> <size>.
CreateVMDisk_create(p) ==
    /\ pc[p] = "CreateVMDisk_create"
    /\ \E ok \in BOOLEAN :
        /\ Issue(p, Cmd("qemu-img-create", op[p].name, ok))
        /\ disks' = IF ok THEN disks \cup {<<loc[p].pool, op[p].name>>} ELSE disks
        /\ IF ok THEN Goto(p, "CreateVM_write") ELSE Return(p, "DiskFailed")
    /\ UNCHANGED <<vms, xmlFiles, hostPools, op, loc, pre, poolVars, fnVars>>

\* ------------------------------------------------------- virsh.Client.CreateVM

\* cat > /tmp/<name>.xml
CreateVM_write(p) ==
    /\ pc[p] = "CreateVM_write"
    /\ \E ok \in BOOLEAN :
        /\ Issue(p, Cmd("write-xml", CreatedName(op[p]), ok))
        /\ xmlFiles' = IF ok THEN xmlFiles \cup {CreatedName(op[p])} ELSE xmlFiles
        /\ IF ok THEN Goto(p, "CreateVM_define") ELSE Return(p, "XmlFailed")
    /\ UNCHANGED <<vms, disks, hostPools, op, loc, pre, poolVars, fnVars>>

CreateVM_define_soft(p) ==
    /\ pc[p] = "CreateVM_define"
    /\ \E ok \in BOOLEAN :
        /\ ok => CanDefine(CreatedName(op[p]))
        /\ Issue(p, Cmd("define", CreatedName(op[p]), ok))
        /\ vms' = IF ok THEN [vms EXCEPT ![CreatedName(op[p])] = "shut off"] ELSE vms
        /\ Goto(p, "CreateVM_rm")
    /\ UNCHANGED <<disks, xmlFiles, hostPools, op, loc, pre, poolVars, fnVars>>

\* virsh define /tmp/<name>.xml; an error returns before the cleanup.
CreateVM_define(p) ==
    /\ pc[p] = "CreateVM_define"
    /\ \E ok \in BOOLEAN :
        /\ ok => CanDefine(CreatedName(op[p]))
        /\ Issue(p, Cmd("define", CreatedName(op[p]), ok))
        /\ vms' = IF ok THEN [vms EXCEPT ![CreatedName(op[p])] = "shut off"] ELSE vms
        /\ IF ok THEN Goto(p, "CreateVM_rm") ELSE Return(p, "DefineFailed")
    /\ UNCHANGED <<disks, xmlFiles, hostPools, op, loc, pre, poolVars, fnVars>>

CreateVM_rm_fatal(p) ==
    /\ pc[p] = "CreateVM_rm"
    /\ \E ok \in BOOLEAN :
        /\ Issue(p, Cmd("rm-xml", CreatedName(op[p]), ok))
        /\ xmlFiles' = IF ok THEN xmlFiles \ {CreatedName(op[p])} ELSE xmlFiles
        /\ IF ok THEN AfterCreateVM(p) ELSE Return(p, "CleanupFailed")
    /\ UNCHANGED <<vms, disks, hostPools, op, loc, pre, poolVars, fnVars>>

\* rm -f /tmp/<name>.xml; its failure is ignored.
CreateVM_rm(p) ==
    /\ pc[p] = "CreateVM_rm"
    /\ \E ok \in BOOLEAN :
        /\ Issue(p, Cmd("rm-xml", CreatedName(op[p]), ok))
        /\ xmlFiles' = IF ok THEN xmlFiles \ {CreatedName(op[p])} ELSE xmlFiles
        /\ AfterCreateVM(p)
    /\ UNCHANGED <<vms, disks, hostPools, op, loc, pre, poolVars, fnVars>>

\* ----------------------------------------------------------------- cloneCmd

\* cloneCmd: source must be listed ...
cloneCmd(p, alone) ==
    /\ MayBegin(p, alone)
    /\ \E src \in Names, tgt \in Names, linked \in BOOLEAN, ok \in BOOLEAN :
        LET got == GetVM(src, ok) IN
        /\ Begin(p, [NoOp EXCEPT !.kind = "clone", !.name = src, !.target = tgt,
                                 !.linked = linked])
        /\ Issue(p, Cmd("list", "", ok))
        /\ loc' = [loc EXCEPT ![p].state = got]
        /\ IF ~Found(got) THEN Return(p, "NotFound")
           ELSE Goto(p, "clone_target")
    /\ UNCHANGED <<hostVars, poolVars, fnVars>>

\* ... and the target must not be; CloneVM then repeats both checks.
cloneCmd_target(p) ==
    /\ pc[p] \in {"clone_target", "CloneVM_target"}
    /\ \E ok \in BOOLEAN :
        LET got == GetVM(op[p].target, ok) IN
        /\ Issue(p, Cmd("list", "", ok))
        /\ IF ExistsCheck(got) THEN Return(p, "AlreadyExists") /\ UNCHANGED loc
           ELSE IF pc[p] = "clone_target" THEN Goto(p, "CloneVM_source") /\ UNCHANGED loc
           ELSE IF op[p].linked
                THEN Goto(p, "details_list") /\ UNCHANGED loc
                ELSE Goto(p, "virt_clone") /\ UNCHANGED loc
    /\ UNCHANGED <<hostVars, op, pre, poolVars, fnVars>>

CloneVM_source(p) ==
    /\ pc[p] = "CloneVM_source"
    /\ \E ok \in BOOLEAN :
        LET got == GetVM(op[p].name, ok) IN
        /\ Issue(p, Cmd("list", "", ok))
        /\ IF ~Found(got) THEN Return(p, "NotFound")
           ELSE Goto(p, "CloneVM_target")
    /\ UNCHANGED <<hostVars, op, loc, pre, poolVars, fnVars>>

\* The clone tool, run through virsh: an error falls back to manualCloneVM; a
\* success whose output mentions "error" or "failed" is an error; a clean
\* success has defined the target.
CloneVM_virtclone(p) ==
    /\ pc[p] = "virt_clone"
    /\ \E out \in {"err", "ok", "ok-with-error-text"} :
        /\ out = "ok" => vms[op[p].name] # Absent /\ vms[op[p].target] = Absent
        /\ Issue(p, Cmd("virt-clone", op[p].target, out # "err"))
        /\ vms' = IF out = "ok" THEN [vms EXCEPT ![op[p].target] = "shut off"] ELSE vms
        /\ IF out = "err"
           THEN loc' = [loc EXCEPT ![p].manual = TRUE] /\ Goto(p, "details_list")
           ELSE IF out = "ok"
           THEN UNCHANGED loc /\ Goto(p, "show_list")
           ELSE UNCHANGED loc /\ Return(p, "CloneFailed")
    /\ UNCHANGED <<disks, xmlFiles, hostPools, op, pre, poolVars, fnVars>>

\* manualCloneVM after GetVMDetails: stop the source if it is running.
ManualNext(p, state) ==
    IF loc[p].manual /\ Contains(state, "running")
    THEN loc' = [loc EXCEPT ![p].wasRunning = TRUE] /\ Goto(p, "StopVM")
    ELSE UNCHANGED loc /\ Goto(p, "CreateVM_write")

\* GetVMDetails: GetVM, whose error is returned, ...
GetVMDetails_list(p) ==
    /\ pc[p] \in {"details_list", "show_list"}
    /\ \E ok \in BOOLEAN :
        LET who == IF pc[p] = "details_list" THEN op[p].name ELSE op[p].target
            got == GetVM(who, ok)
        IN
        /\ Issue(p, Cmd("list", "", ok))
        /\ IF pc[p] = "details_list"
           THEN IF ~Found(got) THEN Return(p, "DetailsFailed") /\ UNCHANGED loc
                ELSE loc' = [loc EXCEPT ![p].state = got] /\ Goto(p, "details_uuid")
           ELSE UNCHANGED loc /\
                IF ~Found(got) THEN Return(p, "ok") ELSE Goto(p, "show_uuid")
    /\ UNCHANGED <<hostVars, op, pre, poolVars, fnVars>>

\* ... then domuuid, whose error is ignored, ...
GetVMDetails_domuuid(p) ==
    /\ pc[p] \in {"details_uuid", "show_uuid"}
    /\ Issue(p, Cmd("domuuid", IF pc[p] = "details_uuid" THEN op[p].name
                               ELSE op[p].target, TRUE))
    /\ Goto(p, IF pc[p] = "details_uuid" THEN "details_info" ELSE "show_info")
    /\ UNCHANGED <<hostVars, op, loc, pre, poolVars, fnVars>>

\* ... then dominfo, whose error is ignored.
GetVMDetails_dominfo(p) ==
    /\ pc[p] \in {"details_info", "show_info"}
    /\ Issue(p, Cmd("dominfo", IF pc[p] = "details_info" THEN op[p].name
                               ELSE op[p].target, TRUE))
    /\ IF pc[p] = "details_info" THEN ManualNext(p, loc[p].state)
       ELSE UNCHANGED loc /\ Return(p, "ok")
    /\ UNCHANGED <<hostVars, op, pre, poolVars, fnVars>>

\* ------------------------------------------------------------ process exit

\* RunE has returned and the process ends: nothing of the command is kept.
Exit(p) ==
    /\ pc[p] = Done
    /\ pc' = [pc EXCEPT ![p] = Idle]
    /\ op' = [op EXCEPT ![p] = NoOp]
    /\ res' = [res EXCEPT ![p] = "none"]
    /\ cmds' = [cmds EXCEPT ![p] = <<>>]
    /\ loc' = [loc EXCEPT ![p] = NoLoc]
    /\ pre' = [pre EXCEPT ![p] = NoPre]
    /\ UNCHANGED <<hostVars, poolVars, fnVars>>

\* ------------------------------------------------------------------- hosts

cache1 == Pool("CACHEDEV1", "CACHEDEV", 1, TRUE)
zfs1 == Pool("zfs-pool1", "ZFS", 2, TRUE)
usb1 == Pool("usb-SDisk", "USB", 2, TRUE)

\* The storage layouts of the hosts considered: none, one cache volume, a
\* ZFS pool with a USB disk (DetectPools lists cache, then ZFS, then USB).
HostPoolConfigs == {<<>>, <<cache1>>, <<zfs1, usb1>>}

Init ==
    /\ vms \in [Names -> {Absent} \cup StateTokens]
    /\ disks = {}
    /\ xmlFiles = {}
    /\ hostPools \in HostPoolConfigs
    /\ pc = [p \in Callers |-> Idle]
    /\ op = [p \in Callers |-> NoOp]
    /\ res = [p \in Callers |-> "none"]
    /\ cmds = [p \in Callers |-> <<>>]
    /\ loc = [p \in Callers |-> NoLoc]
    /\ pre = [p \in Callers |-> NoPre]
    /\ poolIn = <<>>
    /\ poolOut = -1
    /\ fnArg = NoArg
    /\ fnOut = NoOut

Next ==
    \E p \in Callers :
        \/ startCmd(p, TRUE)
        \/ StartVM(p)
        \/ stopCmd(p, TRUE)
        \/ StopVM(p)
        \/ deleteCmd(p, TRUE)
        \/ DeleteVM_undefine(p)
        \/ createCmd(p, TRUE)
        \/ createCmd_GetBestPool(p)
        \/ createCmd_CreateVMDiskPath(p)
        \/ CreateVMDisk_test(p)
        \/ CreateVMDisk_create(p)
        \/ CreateVM_write(p)
        \/ CreateVM_define(p)
        \/ CreateVM_rm(p)
        \/ cloneCmd(p, TRUE)
        \/ cloneCmd_target(p)
        \/ CloneVM_source(p)
        \/ CloneVM_virtclone(p)
        \/ GetVMDetails_list(p)
        \/ GetVMDetails_domuuid(p)
        \/ GetVMDetails_dominfo(p)
        \/ Exit(p)

Spec == Init /\ [][Next]_vars


\* Two callers, each running createCmd once, racing on a host with one
\* cache volume on which every VM is either undefined or shut off.
InitRace ==
    /\ Init
    /\ hostPools = <<cache1>>
    /\ vms \in [Names -> {Absent, "shut off"}]

NextRace ==
    \E p \in Callers :
        \/ createCmd(p, FALSE)
        \/ createCmd_GetBestPool(p)
        \/ createCmd_CreateVMDiskPath(p)
        \/ CreateVMDisk_test(p)
        \/ CreateVMDisk_create(p)
        \/ CreateVM_write(p)
        \/ CreateVM_define(p)
        \/ CreateVM_rm(p)

SpecRace == InitRace /\ [][NextRace]_vars


\* ------------------------------------------------------ the ranking alone

\* Every pool list of at most MaxPools pools, in every order, of every type,
\* free space and availability.
PoolRecs ==
    {Pool("pool", t, f, a) : t \in PoolTypes, f \in 0..MaxFree, a \in BOOLEAN}

PoolLists == UNION {[1..k -> PoolRecs] : k \in 0..MaxPools}

InitPool ==
    /\ vms = [n \in Names |-> Absent]
    /\ disks = {}
    /\ xmlFiles = {}
    /\ hostPools = <<>>
    /\ pc = [p \in Callers |-> Idle]
    /\ op = [p \in Callers |-> NoOp]
    /\ res = [p \in Callers |-> "none"]
    /\ cmds = [p \in Callers |-> <<>>]
    /\ loc = [p \in Callers |-> NoLoc]
    /\ pre = [p \in Callers |-> NoPre]
    /\ poolIn \in PoolLists
    /\ poolOut = -1
    /\ fnArg = NoArg
    /\ fnOut = NoOut

\* GetBestPool applied to the list DetectPools returned.
SelectBest ==
    /\ poolOut = -1
    /\ poolOut' = GetBestPool(poolIn)
    /\ UNCHANGED <<hostVars, callerVars, poolIn, fnVars>>

NextPool == SelectBest

SpecPool == InitPool /\ [][NextPool]_vars


\* ------------------------------------------------------------------ claims

InCmd(p, kind) == pc[p] # Idle /\ op[p].kind = kind
Ended(p, kind) == pc[p] = Done /\ op[p].kind = kind
IssuedVerb(p, verb) == \E i \in 1..Len(cmds[p]) : cmds[p][i].verb = verb
AllOk(p) == \A i \in 1..Len(cmds[p]) : cmds[p][i].ok
\* What a `get` run now, with a working list command, reports for the name.
GetNow(name) == GetVM(name, TRUE)

\* C1: scenario A.  With no remote command failing: create of an absent name
\* succeeds (given a storage pool) and get then reports "shut off"; start of
\* that VM succeeds and get then reports "running"; start of a VM listed as
\* running returns success and issues no start command.
C1_ScenarioA ==
    \A p \in Callers :
        /\ Ended(p, "create") /\ pre[p].vms[op[p].name] = Absent /\ AllOk(p)
              /\ res[p] # "NoPool"
            => res[p] = "ok"
        /\ Ended(p, "create") /\ res[p] = "ok"
            => /\ pre[p].vms[op[p].name] = Absent
               /\ Contains(GetNow(op[p].name), "shut off")
        /\ Ended(p, "start") /\ Contains(pre[p].vms[op[p].name], "shut off") /\ AllOk(p)
            => /\ res[p] = "ok"
               /\ cmds[p] = <<Cmd("list", "", TRUE), Cmd("start", op[p].name, TRUE)>>
               /\ Contains(GetNow(op[p].name), "running")
        /\ InCmd(p, "start") /\ Contains(pre[p].vms[op[p].name], "running") /\ AllOk(p)
            => /\ pc[p] = Done
               /\ res[p] = "ok"
               /\ ~IssuedVerb(p, "start")
               /\ vms = pre[p].vms

\* The third stage of the scenario: a VM whose disk image was made by create
\* is running, and a start of it has returned success without a start command.
C1_Witness ==
    \E p \in Callers :
        /\ Ended(p, "start") /\ res[p] = "ok" /\ ~IssuedVerb(p, "start")
        /\ vms[op[p].name] = "running"
        /\ \E d \in disks : d[2] = op[p].name

\* C2 as stated: stop on a VM listed in any state that does not contain
\* "running" returns success, issues no shutdown or destroy and changes no state.
C2_Original ==
    \A p \in Callers :
        Ended(p, "stop") /\ Found(loc[p].state) /\ ~Contains(loc[p].state, "running")
            => /\ res[p] = "ok"
               /\ cmds[p] = <<Cmd("list", "", TRUE)>>
               /\ vms = pre[p].vms

\* C2 amended: stop on a VM listed with a state containing "shut off" returns
\* success, issues no shutdown or destroy and changes no state, for both values
\* of force; for any other listed state (running, paused) the stop verb is issued.
C2_Amended ==
    \A p \in Callers :
        /\ InCmd(p, "stop") /\ Found(loc[p].state) /\ Contains(loc[p].state, "shut off")
            => /\ pc[p] = Done
               /\ res[p] = "ok"
               /\ cmds[p] = <<Cmd("list", "", TRUE)>>
               /\ vms = pre[p].vms
        /\ Ended(p, "stop") /\ Found(loc[p].state) /\ ~Contains(loc[p].state, "shut off")
            => Len(cmds[p]) = 2 /\ cmds[p][2].verb \in {"shutdown", "destroy"}

C2_Witness ==
    \E p \in Callers :
        /\ Ended(p, "stop") /\ op[p].force /\ loc[p].state = "shut off"
        /\ res[p] = "ok" /\ Len(cmds[p]) = 1

\* C3: a stop that is not a no-op issues exactly one command on the named VM,
\* "shutdown" without force and "destroy" with force; a successful forced stop
\* of a running VM leaves it not running.
C3_StopVerb ==
    \A p \in Callers :
        Ended(p, "stop") /\ Len(cmds[p]) > 1
            => /\ Len(cmds[p]) = 2
               /\ cmds[p][2].arg = op[p].name
               /\ cmds[p][2].verb = (IF op[p].force THEN "destroy" ELSE "shutdown")
               /\ (res[p] = "ok") = cmds[p][2].ok
               /\ op[p].force /\ res[p] = "ok"
                    => ~Contains(GetNow(op[p].name), "running")

C3_Witness ==
    \E p \in Callers :
        /\ Ended(p, "stop") /\ op[p].force /\ loc[p].state = "running"
        /\ res[p] = "ok"
        /\ Len(cmds[p]) = 2
        /\ cmds[p][2] = Cmd("destroy", op[p].name, TRUE)
        /\ vms[op[p].name] = "shut off"

\* C4: delete of a name with no VM returns NotFound and issues neither destroy
\* nor undefine.
C4_DeleteMissing ==
    \A p \in Callers :
        InCmd(p, "delete") /\ pre[p].vms[op[p].name] = Absent
            => /\ pc[p] = Done
               /\ res[p] = "NotFound"
               /\ ~IssuedVerb(p, "destroy")
               /\ ~IssuedVerb(p, "undefine")
               /\ vms = pre[p].vms

C4_Witness ==
    \E p \in Callers :
        /\ Ended(p, "delete") /\ pre[p].vms[op[p].name] = Absent
        /\ op[p].force
        /\ cmds[p] = <<Cmd("list", "", TRUE)>>
        /\ res[p] = "NotFound"

\* C5: a delete that found the VM and was confirmed (forced, or answered yes)
\* issues "destroy n" and then "undefine n", whatever the VM's state; a failed
\* destroy does not end it; its result is that of undefine; after a successful
\* delete the name is no longer listed.
C5_DeleteOrder ==
    \A p \in Callers :
        InCmd(p, "delete") /\ Found(loc[p].state) /\ Confirmed(op[p])
            => /\ pc[p] \in {"StopVM", "undefine", Done}
               /\ pc[p] = "StopVM" => Len(cmds[p]) = 1
               /\ pc[p] # "StopVM" =>
                    /\ cmds[p][2].verb = "destroy"
                    /\ cmds[p][2].arg = op[p].name
               /\ pc[p] = "undefine" => Len(cmds[p]) = 2
               /\ pc[p] = Done =>
                    /\ Len(cmds[p]) = 3
                    /\ cmds[p][3].verb = "undefine"
                    /\ cmds[p][3].arg = op[p].name
                    /\ (res[p] = "ok") = cmds[p][3].ok
                    /\ res[p] = "ok" => GetNow(op[p].name) = "notfound"

C5_Witness ==
    \E p \in Callers :
        /\ Ended(p, "delete") /\ ~op[p].force /\ loc[p].state = "shut off"
        /\ Len(cmds[p]) = 3
        /\ ~cmds[p][2].ok
        /\ res[p] = "ok"
        /\ vms[op[p].name] = Absent


\* C6 as stated: create of a name whose VM exists fails with AlreadyExists
\* and probes no storage pool, creates no disk image and issues no define.
C6_Claim ==
    \A p \in Callers :
        Ended(p, "create") /\ pre[p].vms[op[p].name] # Absent
            => /\ res[p] = "AlreadyExists"
               /\ ~IssuedVerb(p, "probe")
               /\ ~IssuedVerb(p, "qemu-img-create")
               /\ ~IssuedVerb(p, "define")

\* C7 as stated: every define command of an operation comes after a
\* successful creation of the disk image of the same VM in that operation.
C7_Claim ==
    \A p \in Callers :
        \A i \in 1..Len(cmds[p]) :
            cmds[p][i].verb = "define"
                => \E j \in 1..(i - 1) :
                        cmds[p][j] = Cmd("qemu-img-create", cmds[p][i].arg, TRUE)

Failed(p) == pc[p] = Done /\ res[p] # "ok"

RacePair(p, q) ==
    /\ p # q
    /\ InCmd(p, "create") /\ InCmd(q, "create")
    /\ op[p].name = op[q].name

DefinedBy(p) ==
    \E i \in 1..Len(cmds[p]) : cmds[p][i] = Cmd("define", op[p].name, TRUE)

\* C9: of two callers creating the same name at the same time at most one
\* defines the VM and at most one succeeds; the other, once past the existence
\* check, ends with a remote-command error, never AlreadyExists, and if it got
\* as far as define it is define that failed.
C9_CreateRace ==
    \A p, q \in Callers :
        RacePair(p, q) =>
            /\ ~(DefinedBy(p) /\ DefinedBy(q))
            /\ ~(res[p] = "ok" /\ res[q] = "ok")
            /\ DefinedBy(p) /\ pc[q] = Done /\ ~ExistsCheck(loc[q].state) =>
                /\ res[q] \in {"NoPool", "DiskFailed", "XmlFailed", "DefineFailed"}
                /\ IssuedVerb(q, "define") =>
                    /\ res[q] = "DefineFailed"
                    /\ cmds[q][Len(cmds[q])] = Cmd("define", op[q].name, FALSE)

\* Both callers listed the host, found the name absent, and went on; one
\* defined the VM and the other failed at define.
C9_Witness ==
    \E p, q \in Callers :
        /\ RacePair(p, q)
        /\ pre[p].vms[op[p].name] = Absent /\ pre[q].vms[op[q].name] = Absent
        /\ cmds[p][1].ok /\ cmds[q][1].ok
        /\ loc[p].state = "notfound" /\ loc[q].state = "notfound"
        /\ res[p] = "ok" /\ res[q] = "DefineFailed"

AvailableOfType(type) ==
    {i \in 1..Len(poolIn) : poolIn[i].available /\ poolIn[i].type = type}

\* C10: for every pool list in every order the selected pool is an available
\* CACHEDEV pool when there is one, else an available ZFS pool when there is
\* one, else an available USB pool, whatever the free space of the pools.
C10_TypePreference ==
    poolOut # -1 =>
        /\ AvailableOfType("CACHEDEV") # {} => poolOut \in AvailableOfType("CACHEDEV")
        /\ AvailableOfType("CACHEDEV") = {} /\ AvailableOfType("ZFS") # {}
            => poolOut \in AvailableOfType("ZFS")
        /\ AvailableOfType("CACHEDEV") = {} /\ AvailableOfType("ZFS") = {}
              /\ AvailableOfType("USB") # {}
            => poolOut \in AvailableOfType("USB")

\* The list of TestBestPoolSelection (USB with the most free space first,
\* CACHEDEV with the least, then ZFS): the CACHEDEV pool is selected.
C10_Witness ==
    /\ poolIn = <<Pool("pool", "USB", 2, TRUE), Pool("pool", "CACHEDEV", 0, TRUE),
                  Pool("pool", "ZFS", 1, TRUE)>>
    /\ poolOut = 2

\* ------------------------------------------------------ discovery alone

\* Host, callers and ranking at rest: the state in which a function is taken
\* alone.
Quiet ==
    /\ vms = [n \in Names |-> Absent]
    /\ disks = {}
    /\ xmlFiles = {}
    /\ hostPools = <<>>
    /\ pc = [p \in Callers |-> Idle]
    /\ op = [p \in Callers |-> NoOp]
    /\ res = [p \in Callers |-> "none"]
    /\ cmds = [p \in Callers |-> <<>>]
    /\ loc = [p \in Callers |-> NoLoc]
    /\ pre = [p \in Callers |-> NoPre]
    /\ poolIn = <<>>
    /\ poolOut = -1

cache2 == Pool("CACHEDEV2", "CACHEDEV", 2, TRUE)

\* What a host can offer to the three probes, in probe order: any selection
\* of two cache volumes, a ZFS pool and a USB disk.
AllPools == <<cache1, cache2, zfs1, usb1>>
AllPoolNames == {AllPools[i].name : i \in 1..Len(AllPools)}
DetectLayouts ==
    {SelectSeq(AllPools, LAMBDA q : q.name \in S) : S \in SUBSET AllPoolNames}

InitDetect ==
    /\ Quiet
    /\ fnArg \in [fn : {"GetBestPool"}, cfg : DetectLayouts,
                  probeOk : [PoolTypes -> BOOLEAN], dfOk : [AllPoolNames -> BOOLEAN]]
    /\ fnOut = NoOut

\* GetBestPool on a host: DetectPools, then the ranking of what it returned.
DetectAndSelect ==
    /\ fnArg.fn = "GetBestPool" /\ ~fnOut.done
    /\ LET pools == DetectPools(fnArg.cfg, fnArg.probeOk, fnArg.dfOk) IN
       fnOut' = [done |-> TRUE, pools |-> pools, best |-> GetBestPool(pools)]
    /\ UNCHANGED <<hostVars, callerVars, poolVars, fnArg>>

NextDetect == DetectAndSelect

SpecDetect == InitDetect /\ [][NextDetect]_vars

ProbedOk == {i \in 1..Len(fnArg.cfg) : fnArg.probeOk[fnArg.cfg[i].type]}

\* C11: discovery always returns a list: the pools of every probe that did
\* not err, and none of a probe that erred; the selection fails exactly when
\* that list is empty.
C11_Discovery ==
    fnOut.done =>
        /\ Len(fnOut.pools) = Cardinality(ProbedOk)
        /\ \A i \in ProbedOk : \E j \in 1..Len(fnOut.pools) :
                fnOut.pools[j].name = fnArg.cfg[i].name
        /\ \A j \in 1..Len(fnOut.pools) : fnArg.probeOk[fnOut.pools[j].type]
        /\ fnOut.best = 0 <=> Len(fnOut.pools) = 0

\* The cache probe erred on a host with a cache volume and a ZFS pool: the
\* ZFS pool is still returned, and selected.
C11_Witness ==
    /\ fnOut.done
    /\ fnArg.cfg = <<cache1, zfs1>>
    /\ ~fnArg.probeOk["CACHEDEV"] /\ fnArg.probeOk["ZFS"]
    /\ fnOut.best = 1 /\ fnOut.pools[1].name = zfs1.name

\* ------------------------------------------------------ disk path alone

\* Pool.Path as the probes build it: /share/<device>_DATA for a cache volume,
\* /share/<pool> for a ZFS pool, the mount point for a USB disk.
PoolPath(pool) ==
    IF pool.type = "CACHEDEV" THEN "/share/" \o pool.name \o "_DATA"
    ELSE IF pool.type = "ZFS" THEN "/share/pool1"
    ELSE "/share/USB/SDisk"

vmDir_vmDisks(poolPath) == poolPath \o "/.vm-disks"

\* vmDir := fmt.Sprintf("%s/.qnap-vm/disks", pool.Path)
vmDir(poolPath) == poolPath \o "/.qnap-vm/disks"

\* diskPath := fmt.Sprintf("%s/%s.qcow2", vmDir, vmName)
diskPath(poolPath, vmName) == vmDir(poolPath) \o "/" \o vmName \o ".qcow2"

VmNames == {"alpha", "beta", "test-vm", "web.1", "a b"}

InitPath ==
    /\ Quiet
    /\ fnArg \in [fn : {"CreateVMDiskPath"},
                  pool : {AllPools[i] : i \in 1..Len(AllPools)}, vmName : VmNames]
    /\ fnOut = [done |-> FALSE, paths |-> <<>>, mkdirs |-> <<>>]

\* One call of CreateVMDiskPath: the mkdir -p succeeds or fails, the path is
\* returned either way.  The function is called twice on the same inputs.
CallCreateVMDiskPath ==
    /\ fnArg.fn = "CreateVMDiskPath" /\ ~fnOut.done
    /\ \E mkdirOk \in BOOLEAN :
        fnOut' = [done |-> Len(fnOut.paths) = 1,
                  paths |-> Append(fnOut.paths,
                                   diskPath(PoolPath(fnArg.pool), fnArg.vmName)),
                  mkdirs |-> Append(fnOut.mkdirs, mkdirOk)]
    /\ UNCHANGED <<hostVars, callerVars, poolVars, fnArg>>

NextPath == CallCreateVMDiskPath

SpecPath == InitPath /\ [][NextPath]_vars

\* C12 as stated: the path is <pool-path>/.vm-disks/<vm-name>.qcow2.
C12_Original ==
    \A i \in 1..Len(fnOut.paths) :
        fnOut.paths[i] = PoolPath(fnArg.pool) \o "/.vm-disks/" \o fnArg.vmName \o ".qcow2"

\* C12 amended: the path is <pool-path>/.qnap-vm/disks/<vm-name>.qcow2; two
\* calls on the same pool and name return the same string whether or not
\* their directory-creation commands failed.
C12_Amended ==
    /\ \A i \in 1..Len(fnOut.paths) :
        fnOut.paths[i]
            = PoolPath(fnArg.pool) \o "/.qnap-vm/disks/" \o fnArg.vmName \o ".qcow2"
    /\ Len(fnOut.paths) = 2 => fnOut.paths[1] = fnOut.paths[2]

\* The pool and name of TestCreateVMDiskPath, derived twice, the first mkdir
\* failing and the second succeeding.
C12_Witness ==
    /\ fnOut.done
    /\ fnArg.pool = cache1 /\ fnArg.vmName = "test-vm"
    /\ fnOut.mkdirs = <<FALSE, TRUE>>
    /\ fnOut.paths[2] = "/share/CACHEDEV1_DATA/.qnap-vm/disks/test-vm.qcow2"

\* ------------------------------------------------------ parseSize alone

\* Strings are sequences of one-character strings.
DigitChars == <<"0", "1", "2", "3", "4", "5", "6", "7", "8", "9">>
LowerChars == <<"a", "b", "c", "d", "e", "f", "g", "h", "i", "j", "k", "l", "m",
                "n", "o", "p", "q", "r", "s", "t", "u", "v", "w", "x", "y", "z">>
UpperChars == <<"A", "B", "C", "D", "E", "F", "G", "H", "I", "J", "K", "L", "M",
                "N", "O", "P", "Q", "R", "S", "T", "U", "V", "W", "X", "Y", "Z">>

IsDigit(c) == \E i \in 1..Len(DigitChars) : DigitChars[i] = c
DigitVal(c) == (CHOOSE i \in 1..Len(DigitChars) : DigitChars[i] = c) - 1
\* strings.ToUpper, one character at a time.
ToUpperChar(c) ==
    IF \E i \in 1..Len(LowerChars) : LowerChars[i] = c
    THEN UpperChars[CHOOSE i \in 1..Len(LowerChars) : LowerChars[i] = c]
    ELSE c
ToUpper(s) == [i \in 1..Len(s) |-> ToUpperChar(s[i])]

DigitSet == {DigitChars[i] : i \in 1..Len(DigitChars)}

SpaceSet == {" ", "\t"}

\* First index at or after i whose character is not in chars (Len(s) + 1 if none).
SkipWhile(s, i, chars) ==
    CHOOSE j \in i..(Len(s) + 1) :
        /\ \A k \in i..(j - 1) : s[k] \in chars
        /\ j = Len(s) + 1 \/ s[j] \notin chars

\* Index of the first digit of s (Len(s) + 1 if none): where the pattern can start.
FirstDigit(s) ==
    CHOOSE j \in 1..(Len(s) + 1) :
        /\ \A k \in 1..(j - 1) : s[k] \notin DigitSet
        /\ j = Len(s) + 1 \/ s[j] \in DigitSet

RECURSIVE DigitsValue(_)
DigitsValue(ds) ==
    IF Len(ds) = 0 THEN 0
    ELSE 10 * DigitsValue(SubSeq(ds, 1, Len(ds) - 1)) + DigitVal(ds[Len(ds)])

RECURSIVE Pow10(_)
Pow10(d) == IF d = 0 THEN 1 ELSE 10 * Pow10(d - 1)

\* re.FindStringSubmatch for (\d+(?:\.\d+)?)\s*([KMGT]?)B? : the leftmost
\* digit starts the match; [found, num, den, unit] with the number num / den.
SizeMatch(s) ==
    LET start == FirstDigit(s)
        intEnd == SkipWhile(s, start, DigitSet)
        hasFrac == /\ intEnd + 1 <= Len(s)
                   /\ s[intEnd] = "."
                   /\ IsDigit(s[intEnd + 1])
        numEnd == IF hasFrac THEN SkipWhile(s, intEnd + 1, DigitSet) ELSE intEnd
        fracLen == IF hasFrac THEN numEnd - intEnd - 1 ELSE 0
        digits == SubSeq(s, start, intEnd - 1)
                    \o (IF hasFrac THEN SubSeq(s, intEnd + 1, numEnd - 1) ELSE <<>>)
        unitAt == SkipWhile(s, numEnd, SpaceSet)
        unit == IF unitAt <= Len(s) /\ s[unitAt] \in {"K", "M", "G", "T"}
                THEN s[unitAt] ELSE ""
    IN  IF start > Len(s) THEN [found |-> FALSE, num |-> 0, den |-> 1, unit |-> ""]
        ELSE [found |-> TRUE, num |-> DigitsValue(digits), den |-> Pow10(fracLen),
              unit |-> unit]

ToGB_kiloAsMega(num, den, unit) ==
    IF unit \in {"K", "M"} THEN num \div (den * 1024)
    ELSE IF unit = "T" THEN (num * 1024) \div den
    ELSE num \div den

\* The switch on the unit; int64() of a non-negative float is its floor.
ToGB(num, den, unit) ==
    IF unit = "K" THEN num \div (den * 1024 * 1024)
    ELSE IF unit = "M" THEN num \div (den * 1024)
    ELSE IF unit = "T" THEN (num * 1024) \div den
    ELSE num \div den

parseSize(sizeStr) ==
    IF Len(sizeStr) = 0 THEN 0
    ELSE LET m == SizeMatch(ToUpper(sizeStr)) IN
         IF ~m.found THEN 0 ELSE ToGB(m.num, m.den, m.unit)

RECURSIVE ToDigits(_)
\* Decimal digits of a natural number.
ToDigits(n) ==
    IF n < 10 THEN <<DigitChars[n + 1]>>
    ELSE ToDigits(n \div 10) \o <<DigitChars[(n % 10) + 1]>>

\* The size strings considered: <number><unit> with the numbers around the
\* unit boundaries, with and without a fraction, the unit in either case or
\* missing; the empty string and strings with no number in them.
\* Largest number taken with the unit T (its gigabytes stay within the
\* integers of the checker).
MaxTera == 2048

SizeWholes == {0, 1, 2, 50, 100, 123, 512, 1023, 1024, 2048, 1048575, 1048576, 2097152}
SizeFracs == {<<>>, <<"0">>, <<"5">>, <<"2", "5">>, <<"9", "9", "9">>}
SizeUnits == {"", "K", "M", "G", "T", "k", "m", "g", "t"}
JunkStrings == {<<>>, <<"i", "n", "v", "a", "l", "i", "d">>, <<"G">>, <<"-">>, <<" ">>}

SizeString(whole, frac, unit) ==
    ToDigits(whole) \o (IF Len(frac) = 0 THEN <<>> ELSE <<".">> \o frac)
        \o (IF unit = "" THEN <<>> ELSE <<unit>>)

SizeInputs ==
    UNION {{[fn |-> "parseSize", sized |-> TRUE, whole |-> w, frac |-> f, unit |-> u,
             str |-> SizeString(w, f, u)] :
                f \in SizeFracs,
                u \in IF w <= MaxTera THEN SizeUnits ELSE SizeUnits \ {"T", "t"}} :
           w \in SizeWholes}
    \cup
    {[fn |-> "parseSize", sized |-> FALSE, whole |-> 0, frac |-> <<>>, unit |-> "",
      str |-> j] : j \in JunkStrings}

InitSize ==
    /\ Quiet
    /\ fnArg \in SizeInputs
    /\ fnOut = NoOut

CallParseSize ==
    /\ fnArg.fn = "parseSize" /\ ~fnOut.done
    /\ fnOut' = [done |-> TRUE, gb |-> parseSize(fnArg.str)]
    /\ UNCHANGED <<hostVars, callerVars, poolVars, fnArg>>

NextSize == CallParseSize

SpecSize == InitSize /\ [][NextSize]_vars

\* The number written in the input, as numerator over denominator.
ArgNum == DigitsValue(ToDigits(fnArg.whole) \o fnArg.frac)
ArgDen == Pow10(Len(fnArg.frac))
ArgUnit == ToUpperChar(fnArg.unit)

\* The size written in the input is below 1 GiB.
BelowOneGiB ==
    IF ArgUnit = "K" THEN ArgNum < ArgDen * 1048576
    ELSE IF ArgUnit = "M" THEN ArgNum < ArgDen * 1024
    ELSE IF ArgUnit = "T" THEN ArgNum * 1024 < ArgDen
    ELSE ArgNum < ArgDen

\* C13: for <number><K|M|G|T> in either case parseSize returns the whole
\* gigabytes: K divided by 1,048,576, M divided by 1024, G floored, T times
\* 1024; a bare number is gigabytes; the empty string and a string with no
\* number in it give 0; a size below 1 GiB gives 0.
C13_ParseSize ==
    fnOut.done =>
        /\ fnArg.sized /\ ArgUnit = "K" => fnOut.gb = ArgNum \div (ArgDen * 1048576)
        /\ fnArg.sized /\ ArgUnit = "M" => fnOut.gb = ArgNum \div (ArgDen * 1024)
        /\ fnArg.sized /\ ArgUnit \in {"G", ""} => fnOut.gb = ArgNum \div ArgDen
        /\ fnArg.sized /\ ArgUnit = "T" => fnOut.gb = (ArgNum * 1024) \div ArgDen
        /\ ~fnArg.sized => fnOut.gb = 0
        /\ fnArg.sized /\ BelowOneGiB => fnOut.gb = 0

\* "2048.5m" is 2 GB.
C13_Witness ==
    /\ fnOut.done
    /\ fnArg.str = <<"2", "0", "4", "8", ".", "5", "m">>
    /\ fnOut.gb = 2

\* ---------------------------------------------------- parseVMList alone

\* A line of text is the sequence of its whitespace-separated tokens, each a
\* sequence of characters: strings.TrimSpace and strings.Fields see nothing
\* else of the white space, and no marker searched for holds white space.
MaxRows == 2

\* strings.Contains(line, sub) for a marker sub without white space.
ContainsTok(tok, sub) ==
    \E i \in 1..(Len(tok) - Len(sub) + 1) : SubSeq(tok, i, i + Len(sub) - 1) = sub
LineContains(line, sub) == \E k \in 1..Len(line) : ContainsTok(line[k], sub)

RECURSIVE JoinSpace(_)
\* strings.Join(fields, " ")
JoinSpace(fields) ==
    IF Len(fields) = 0 THEN <<>>
    ELSE IF Len(fields) = 1 THEN fields[1]
    ELSE fields[1] \o <<" ">> \o JoinSpace(Tail(fields))

\* strconv.Atoi: [ok, val]; an optional sign, then digits only.
Atoi(tok) ==
    LET signed == Len(tok) > 0 /\ tok[1] \in {"+", "-"}
        ds == IF signed THEN Tail(tok) ELSE tok
    IN  IF Len(ds) = 0 \/ \E i \in 1..Len(ds) : ~IsDigit(ds[i])
        THEN [ok |-> FALSE, val |-> 0]
        ELSE [ok |-> TRUE,
              val |-> IF signed /\ tok[1] = "-" THEN 0 - DigitsValue(ds)
                      ELSE DigitsValue(ds)]

IsListHeader(line) ==
    /\ LineContains(line, <<"I", "d">>)
    /\ LineContains(line, <<"N", "a", "m", "e">>)
    /\ LineContains(line, <<"S", "t", "a", "t", "e">>)

RECURSIVE DataLines(_, _)
\* The first loop: lines after the header that are not blank and hold no "---".
DataLines(lines, headerFound) ==
    IF Len(lines) = 0 THEN <<>>
    ELSE IF IsListHeader(lines[1]) THEN DataLines(Tail(lines), TRUE)
    ELSE IF headerFound /\ Len(lines[1]) # 0
              /\ ~LineContains(lines[1], <<"-", "-", "-">>)
         THEN <<lines[1]>> \o DataLines(Tail(lines), headerFound)
         ELSE DataLines(Tail(lines), headerFound)

\* One VMInfo of the second loop.
VMInfoOf(fields) ==
    [Name |-> fields[2],
     State |-> JoinSpace(SubSeq(fields, 3, Len(fields))),
     ID |-> IF fields[1] # <<"-">> /\ Atoi(fields[1]).ok THEN Atoi(fields[1]).val
            ELSE 0]

\* parseVMList: the records of the data lines that have three fields or more.
parseVMList(lines) ==
    LET data == SelectSeq(DataLines(lines, FALSE), LAMBDA l : Len(l) >= 3)
    IN  [i \in 1..Len(data) |-> VMInfoOf(data[i])]

\* `virsh list --all` output: header, separator, one row per domain, and the
\* empty line that ends it.
ListHeader == <<<<"I", "d">>, <<"N", "a", "m", "e">>, <<"S", "t", "a", "t", "e">>>>
ListSeparator == <<<<"-", "-", "-", "-", "-", "-", "-", "-", "-", "-", "-", "-">>>>

RowIds == {<<"-">>, <<"1">>, <<"1", "2">>}
RowNames == {<<"v", "m", "1">>, <<"t", "e", "s", "t", "-", "v", "m">>,
             <<"w", "e", "b", "-", "-", "-", "0", "1">>}
RowStates == {<<<<"r", "u", "n", "n", "i", "n", "g">>>>,
              <<<<"s", "h", "u", "t">>, <<"o", "f", "f">>>>,
              <<<<"p", "a", "u", "s", "e", "d">>>>}
ListRows == [id : RowIds, name : RowNames, state : RowStates]

RowLine(r) == <<r.id, r.name>> \o r.state
ListText(rows) ==
    <<ListHeader, ListSeparator>> \o [i \in 1..Len(rows) |-> RowLine(rows[i])] \o <<<<>>>>

InitList ==
    /\ Quiet
    /\ fnArg \in [fn : {"parseVMList"},
                  rows : UNION {[1..k -> ListRows] : k \in 0..MaxRows}]
    /\ fnOut = NoOut

CallParseVMList ==
    /\ fnArg.fn = "parseVMList" /\ ~fnOut.done
    /\ fnOut' = [done |-> TRUE, vms |-> parseVMList(ListText(fnArg.rows))]
    /\ UNCHANGED <<hostVars, callerVars, poolVars, fnArg>>

NextList == CallParseVMList

SpecList == InitList /\ [][NextList]_vars

\* C14 as stated: N data rows below the header give N records in row order,
\* the identifier 0 for "-" and the integer otherwise, the name from the
\* second token and the state from the remaining tokens joined by spaces.
C14_Claim ==
    fnOut.done =>
        /\ Len(fnOut.vms) = Len(fnArg.rows)
        /\ \A i \in 1..Len(fnOut.vms) :
            /\ fnOut.vms[i].Name = fnArg.rows[i].name
            /\ fnOut.vms[i].State = JoinSpace(fnArg.rows[i].state)
            /\ fnOut.vms[i].ID = IF fnArg.rows[i].id = <<"-">> THEN 0
                                 ELSE DigitsValue(fnArg.rows[i].id)

\* ------------------------------------------------ generateDomainXML alone

MaxCPUs == 4

MemoryKiB_asMB(memoryMB) == memoryMB

\* domain.Memory.Value = config.Memory * 1024
MemoryKiB(memoryMB) == memoryMB * 1024

\* The disk devices: one file-backed virtio disk when a path is configured.
DomainDisks(DiskPath) ==
    IF DiskPath # ""
    THEN <<[Type |-> "file", Device |-> "disk",
            Driver |-> [Name |-> "qemu", Type |-> "qcow2"],
            Source |-> [File |-> DiskPath],
            Target |-> [Dev |-> "vda", Bus |-> "virtio"]]>>
    ELSE <<>>

\* The network interfaces: one user-mode virtio interface.
DomainInterfaces == <<[Type |-> "user", Model |-> [Type |-> "virtio"]]>>

\* The marshalled document, element by element; integers are written in
\* decimal as character data.
generateDomainXML(name, config) ==
    [Type |-> "qemu",
     Name |-> name,
     Memory |-> [Unit |-> "KiB", Value |-> ToDigits(MemoryKiB(config.Memory))],
     VCPU |-> [Placement |-> "static", Value |-> ToDigits(config.CPUs)],
     OS |-> [Arch |-> "x86_64", Machine |-> "pc-i440fx-2.3", Value |-> "hvm",
             Boot |-> "hd"],
     Disk |-> DomainDisks(config.DiskPath),
     Interface |-> DomainInterfaces]

ConfigMemories == {128, 512, 1024, 2048, 4096, 8192, 16384, 65536}
ConfigDiskPaths == {"", diskPath(PoolPath(cache1), "test-vm"),
                    diskPath(PoolPath(usb1), "alpha")}

InitXML ==
    /\ Quiet
    /\ fnArg \in [fn : {"generateDomainXML"}, name : {"test-vm", "alpha"},
                  Memory : ConfigMemories, CPUs : 1..MaxCPUs,
                  DiskPath : ConfigDiskPaths]
    /\ fnOut = NoOut

CallGenerateDomainXML ==
    /\ fnArg.fn = "generateDomainXML" /\ ~fnOut.done
    /\ fnOut' = [done |-> TRUE, domain |-> generateDomainXML(fnArg.name, fnArg)]
    /\ UNCHANGED <<hostVars, callerVars, poolVars, fnArg>>

NextXML == CallGenerateDomainXML

SpecXML == InitXML /\ [][NextXML]_vars

\* C15: the description carries the configured megabytes times 1024 as KiB,
\* the configured CPU count as vCPUs, no disk without a disk path and one
\* disk with one, and one network interface.
C15_DomainXML ==
    fnOut.done =>
        /\ fnOut.domain.Memory.Unit = "KiB"
        /\ DigitsValue(fnOut.domain.Memory.Value) = fnArg.Memory * 1024
        /\ DigitsValue(fnOut.domain.VCPU.Value) = fnArg.CPUs
        /\ Len(fnOut.domain.Disk) = IF fnArg.DiskPath = "" THEN 0 ELSE 1
        /\ \A i \in 1..Len(fnOut.domain.Disk) :
                fnOut.domain.Disk[i].Source.File = fnArg.DiskPath
        /\ Len(fnOut.domain.Interface) = 1

\* The configuration of TestGenerateDomainXML: 2048 MB and 2 CPUs.
C15_Witness ==
    /\ fnOut.done
    /\ fnArg.Memory = 2048 /\ fnArg.CPUs = 2
    /\ fnArg.DiskPath = "/share/CACHEDEV1_DATA/.qnap-vm/disks/test-vm.qcow2"
    /\ fnOut.domain.Memory.Value = <<"2", "0", "9", "7", "1", "5", "2">>
    /\ fnOut.domain.VCPU.Value = <<"2">>
    /\ Len(fnOut.domain.Disk) = 1

\* -------------------------------------------------- statistics parsing alone

MaxDevices == 2

\* One line of `virsh domstats` output, <dom>.<idx>.<path>=<val>, e.g.
\* block.0.rd.bytes=100; val is the text after the equals sign.
StatLine(dom, idx, path, val) == [dom |-> dom, idx |-> idx, path |-> path, val |-> val]

\* A line matched by <dom>\.(\d+)\.<dir>\.<metric>=(\d+).
StatMatch(line, dom, dir, metric) ==
    /\ line.dom = dom
    /\ line.path = <<dir, metric>>
    /\ Len(line.val) > 0 /\ IsDigit(line.val[1])

\* strconv.ParseInt of the digits the pattern captured: the leading digits.
StatValue(line) == DigitsValue(SubSeq(line.val, 1, SkipWhile(line.val, 1, DigitSet) - 1))

SumMatches_first(lines, dom, dir, metric) ==
    IF \E i \in 1..Len(lines) : StatMatch(lines[i], dom, dir, metric)
    THEN StatValue(lines[CHOOSE i \in 1..Len(lines) :
                            /\ StatMatch(lines[i], dom, dir, metric)
                            /\ \A j \in 1..(i - 1) : ~StatMatch(lines[j], dom, dir, metric)])
    ELSE 0

RECURSIVE SumMatches(_, _, _, _)
\* The loop over FindAllStringSubmatch: `+=` for every match of one counter.
SumMatches(lines, dom, dir, metric) ==
    IF Len(lines) = 0 THEN 0
    ELSE (IF StatMatch(lines[1], dom, dir, metric) THEN StatValue(lines[1]) ELSE 0)
            + SumMatches(Tail(lines), dom, dir, metric)

parseBlockStats(lines) ==
    [ReadBytes |-> SumMatches(lines, "block", "rd", "bytes"),
     WriteBytes |-> SumMatches(lines, "block", "wr", "bytes"),
     ReadReqs |-> SumMatches(lines, "block", "rd", "reqs"),
     WriteReqs |-> SumMatches(lines, "block", "wr", "reqs")]

parseNetworkStats(lines) ==
    [RxBytes |-> SumMatches(lines, "net", "rx", "bytes"),
     TxBytes |-> SumMatches(lines, "net", "tx", "bytes"),
     RxPackets |-> SumMatches(lines, "net", "rx", "pkts"),
     TxPackets |-> SumMatches(lines, "net", "tx", "pkts")]

\* What domstats prints for device number idx with the four counters c: its
\* name, the counters, and counters the parsers do not collect.
DeviceLines(dom, idx, c) ==
    LET in == IF dom = "block" THEN "rd" ELSE "rx"
        outw == IF dom = "block" THEN "wr" ELSE "tx"
        count == IF dom = "block" THEN "reqs" ELSE "pkts"
        other == IF dom = "block" THEN "times" ELSE "errs"
    IN  <<StatLine(dom, idx, <<"name">>, <<"v", "d", "a">>),
          StatLine(dom, idx, <<in, count>>, ToDigits(c[3])),
          StatLine(dom, idx, <<in, "bytes">>, ToDigits(c[1])),
          StatLine(dom, idx, <<in, other>>, ToDigits(7)),
          StatLine(dom, idx, <<outw, count>>, ToDigits(c[4])),
          StatLine(dom, idx, <<outw, "bytes">>, ToDigits(c[2])),
          StatLine(dom, idx, <<outw, other>>, ToDigits(9))>>

RECURSIVE StatsText(_, _, _)
StatsText(dom, devs, idx) ==
    IF Len(devs) = 0 THEN <<>>
    ELSE DeviceLines(dom, idx, devs[1]) \o StatsText(dom, Tail(devs), idx + 1)

\* Counters of one device: <<bytes in, bytes out, count in, count out>>.
DeviceCounters == [1..4 -> {100, 200}]

InitStats ==
    /\ Quiet
    /\ fnArg \in [fn : {"parseBlockStats", "parseNetworkStats"},
                  devs : UNION {[1..k -> DeviceCounters] : k \in 0..MaxDevices}]
    /\ fnOut = NoOut

CallParseBlockStats ==
    /\ fnArg.fn = "parseBlockStats" /\ ~fnOut.done
    /\ fnOut' = [done |-> TRUE,
                 BlockIO |-> parseBlockStats(StatsText("block", fnArg.devs, 0))]
    /\ UNCHANGED <<hostVars, callerVars, poolVars, fnArg>>

CallParseNetworkStats ==
    /\ fnArg.fn = "parseNetworkStats" /\ ~fnOut.done
    /\ fnOut' = [done |-> TRUE,
                 Network |-> parseNetworkStats(StatsText("net", fnArg.devs, 0))]
    /\ UNCHANGED <<hostVars, callerVars, poolVars, fnArg>>

NextStats == CallParseBlockStats \/ CallParseNetworkStats

SpecStats == InitStats /\ [][NextStats]_vars

RECURSIVE SumCounter(_, _)
SumCounter(devs, k) ==
    IF Len(devs) = 0 THEN 0 ELSE devs[1][k] + SumCounter(Tail(devs), k)

\* C16: each block counter is the sum of that counter over all block devices,
\* each network counter the sum over all interfaces.
C16_StatsSummed ==
    fnOut.done =>
        /\ fnArg.fn = "parseBlockStats" =>
            /\ fnOut.BlockIO.ReadBytes = SumCounter(fnArg.devs, 1)
            /\ fnOut.BlockIO.WriteBytes = SumCounter(fnArg.devs, 2)
            /\ fnOut.BlockIO.ReadReqs = SumCounter(fnArg.devs, 3)
            /\ fnOut.BlockIO.WriteReqs = SumCounter(fnArg.devs, 4)
        /\ fnArg.fn = "parseNetworkStats" =>
            /\ fnOut.Network.RxBytes = SumCounter(fnArg.devs, 1)
            /\ fnOut.Network.TxBytes = SumCounter(fnArg.devs, 2)
            /\ fnOut.Network.RxPackets = SumCounter(fnArg.devs, 3)
            /\ fnOut.Network.TxPackets = SumCounter(fnArg.devs, 4)

\* Scenario D: two block devices with read bytes 100 and 200 give 300.
C16_Witness ==
    /\ fnOut.done /\ fnArg.fn = "parseBlockStats"
    /\ Len(fnArg.devs) = 2
    /\ fnArg.devs[1][1] = 100 /\ fnArg.devs[2][1] = 200
    /\ fnOut.BlockIO.ReadBytes = 300

\* ---------------------------------------------------- Initialize alone

possiblePaths_reversed == <<"/KVM", "/QVS">>

\* possiblePaths := []string{"/QVS", "/KVM"}
possiblePaths == <<"/QVS", "/KVM">>

Roots == {possiblePaths[i] : i \in 1..Len(possiblePaths)}

\* `test -d <path> && echo 'found'` prints found without error: the command
\* ran and the directory exists.
ProbeFound(env, path) == env.ran[path] /\ env.dir[path]

\* The loop over possiblePaths on a new client: the first path whose probe
\* found it, "" when no probe did.
ChosenPath(env) ==
    IF \E i \in 1..Len(possiblePaths) : ProbeFound(env, possiblePaths[i])
    THEN possiblePaths[CHOOSE i \in 1..Len(possiblePaths) :
                            /\ ProbeFound(env, possiblePaths[i])
                            /\ \A j \in 1..(i - 1) : ~ProbeFound(env, possiblePaths[j])]
    ELSE ""

\* setupEnvironment: `virsh version` with the search paths of the chosen root
\* ran and printed virsh_ready.
setupEnvironment(env, qvsPath) == env.virsh[qvsPath]

\* Initialize: [qvsPath, err].
Initialize(env) ==
    LET qvsPath == ChosenPath(env) IN
    IF qvsPath = "" THEN [qvsPath |-> "", err |-> "NotFound"]
    ELSE IF ~setupEnvironment(env, qvsPath)
         THEN [qvsPath |-> qvsPath, err |-> "ToolchainUnusable"]
         ELSE [qvsPath |-> qvsPath, err |-> "nil"]

\* A remote host: which roots are directories, whether each probe command
\* could be run at all, and whether virsh answers under each root.
InitInitialize ==
    /\ Quiet
    /\ fnArg \in [fn : {"Initialize"}, dir : [Roots -> BOOLEAN],
                  ran : [Roots -> BOOLEAN], virsh : [Roots -> BOOLEAN]]
    /\ fnOut = NoOut

CallInitialize ==
    /\ fnArg.fn = "Initialize" /\ ~fnOut.done
    /\ fnOut' = [done |-> TRUE, r |-> Initialize(fnArg)]
    /\ UNCHANGED <<hostVars, callerVars, poolVars, fnArg>>

NextInitialize == CallInitialize

SpecInitialize == InitInitialize /\ [][NextInitialize]_vars

AllProbesRan == \A r \in Roots : fnArg.ran[r]

\* C17: with the probe commands run, /QVS is chosen when it is a directory,
\* else /KVM when it is; Initialize fails with NotFound when neither is a
\* directory, and with ToolchainUnusable when a root was chosen and virsh
\* does not answer under it; it succeeds otherwise.
C17_Initialize ==
    fnOut.done =>
        /\ AllProbesRan /\ fnArg.dir["/QVS"] => fnOut.r.qvsPath = "/QVS"
        /\ AllProbesRan /\ ~fnArg.dir["/QVS"] /\ fnArg.dir["/KVM"]
            => fnOut.r.qvsPath = "/KVM"
        /\ (\A r \in Roots : ~fnArg.dir[r]) => fnOut.r.err = "NotFound"
        /\ fnOut.r.err = "NotFound" => fnOut.r.qvsPath = ""
        /\ fnOut.r.qvsPath # "" =>
            /\ fnArg.dir[fnOut.r.qvsPath]
            /\ fnOut.r.err = IF fnArg.virsh[fnOut.r.qvsPath] THEN "nil"
                             ELSE "ToolchainUnusable"

\* Both roots are directories, virsh answers under /KVM only: /QVS is chosen
\* and Initialize fails with ToolchainUnusable.
C17_Witness ==
    /\ fnOut.done /\ AllProbesRan
    /\ fnArg.dir["/QVS"] /\ fnArg.dir["/KVM"]
    /\ ~fnArg.virsh["/QVS"] /\ fnArg.virsh["/KVM"]
    /\ fnOut.r = [qvsPath |-> "/QVS", err |-> "ToolchainUnusable"]

\* -------------------------------------------------- claims on the commands

\* C18 as stated: NotFound is reported only when the listing was obtained and
\* does not hold the name; a failed list command is never reported as
\* NotFound, and create does not go on after a failed list command.
C18_Claim ==
    \A p \in Callers :
        /\ pc[p] = Done /\ res[p] = "NotFound"
            => \A i \in 1..Len(cmds[p]) : cmds[p][i].verb = "list" => cmds[p][i].ok
        /\ InCmd(p, "create") /\ Len(cmds[p]) >= 1 /\ ~cmds[p][1].ok
            => pc[p] = Done /\ Len(cmds[p]) = 1

\* ------------------------------------------- client operations taken alone

\* A client operation run against a host whose k-th command succeeds or not
\* as ok[k] says: [err, log], the error flag returned and the commands issued.
MaxCmds == 4

\* GetVMDetails: GetVM, whose error is returned; then domuuid and dominfo,
\* whose results are used only `if err == nil`.
GetVMDetails(name, listed, ok) ==
    IF ~ok[1] \/ ~listed
    THEN [err |-> TRUE, log |-> <<Cmd("list", "", ok[1])>>]
    ELSE [err |-> FALSE,
          log |-> <<Cmd("list", "", ok[1]), Cmd("domuuid", name, ok[2]),
                    Cmd("dominfo", name, ok[3])>>]

\* GetVMStats: four domstats commands, each parsed only `if err == nil`;
\* always returns stats, nil.
GetVMStats(name, ok) ==
    [err |-> FALSE,
     log |-> <<Cmd("domstats --cpu", name, ok[1]), Cmd("domstats --balloon", name, ok[2]),
               Cmd("domstats --block", name, ok[3]),
               Cmd("domstats --interface", name, ok[4])>>]

\* CreateSnapshot, RestoreSnapshot, DeleteSnapshot: one command, its error
\* returned.
CreateSnapshot(name, ok) ==
    [err |-> ~ok[1], log |-> <<Cmd("snapshot-create-as", name, ok[1])>>]
RestoreSnapshot(name, ok) ==
    [err |-> ~ok[1], log |-> <<Cmd("snapshot-revert", name, ok[1])>>]
DeleteSnapshot(name, ok) ==
    [err |-> ~ok[1], log |-> <<Cmd("snapshot-delete", name, ok[1])>>]

ClientOps == {"GetVMDetails", "GetVMStats", "CreateSnapshot", "RestoreSnapshot",
              "DeleteSnapshot"}

InitClient ==
    /\ Quiet
    /\ fnArg \in [fn : ClientOps, name : Names, listed : BOOLEAN,
                  ok : [1..MaxCmds -> BOOLEAN]]
    /\ fnOut = NoOut

Returned(r) == [done |-> TRUE, err |-> r.err, log |-> r.log]

CallGetVMDetails ==
    /\ fnArg.fn = "GetVMDetails" /\ ~fnOut.done
    /\ fnOut' = Returned(GetVMDetails(fnArg.name, fnArg.listed, fnArg.ok))
    /\ UNCHANGED <<hostVars, callerVars, poolVars, fnArg>>

CallGetVMStats ==
    /\ fnArg.fn = "GetVMStats" /\ ~fnOut.done
    /\ fnOut' = Returned(GetVMStats(fnArg.name, fnArg.ok))
    /\ UNCHANGED <<hostVars, callerVars, poolVars, fnArg>>

CallCreateSnapshot ==
    /\ fnArg.fn = "CreateSnapshot" /\ ~fnOut.done
    /\ fnOut' = Returned(CreateSnapshot(fnArg.name, fnArg.ok))
    /\ UNCHANGED <<hostVars, callerVars, poolVars, fnArg>>

CallRestoreSnapshot ==
    /\ fnArg.fn = "RestoreSnapshot" /\ ~fnOut.done
    /\ fnOut' = Returned(RestoreSnapshot(fnArg.name, fnArg.ok))
    /\ UNCHANGED <<hostVars, callerVars, poolVars, fnArg>>

CallDeleteSnapshot ==
    /\ fnArg.fn = "DeleteSnapshot" /\ ~fnOut.done
    /\ fnOut' = Returned(DeleteSnapshot(fnArg.name, fnArg.ok))
    /\ UNCHANGED <<hostVars, callerVars, poolVars, fnArg>>

NextClient ==
    \/ CallGetVMDetails
    \/ CallGetVMStats
    \/ CallCreateSnapshot
    \/ CallRestoreSnapshot
    \/ CallDeleteSnapshot

SpecClient == InitClient /\ [][NextClient]_vars

\* C19 as stated: a hypervisor command that fails inside one of these client
\* operations (list, snapshot-*, domuuid, dominfo, domstats) makes the
\* operation return an error, and nothing is issued after it.
C19_Claim ==
    fnOut.done =>
        \A i \in 1..Len(fnOut.log) :
            ~fnOut.log[i].ok => fnOut.err /\ i = Len(fnOut.log)


(***************************************************************************)
(* The SSH connection of one CLI command.  Every command that talks to the *)
(* device runs loadConfig, connectToQNAP (NewClient, Connect,              *)
(* TestConnection, Initialize), registers a deferred Close, runs its body  *)
(* and returns; the deferred Close runs when the body returns.             *)
(***************************************************************************)
ConnCommands ==
    {"list", "create", "start", "stop", "delete", "status",
     "snapshot create", "snapshot list", "snapshot restore",
     "snapshot delete", "snapshot current", "stats", "clone", "console"}

Prompting == {"delete", "snapshot restore", "snapshot delete", "console"}

Close_noop(client) == client

Close(client) == IF client # "nil" THEN "closed" ELSE client

InitConn ==
    /\ Quiet
    /\ fnArg \in {[fn |-> "RunE", cmd |-> c, force |-> f] :
                     c \in ConnCommands, f \in BOOLEAN}
    /\ fnOut = [done |-> FALSE, step |-> "loadConfig", client |-> "nil",
                deferred |-> FALSE, result |-> "none"]

ReturnErr(client, result) ==
    [fnOut EXCEPT !.done = TRUE, !.step = "returned",
                  !.client = client, !.result = result]

RunE_loadConfig ==
    /\ fnArg.fn = "RunE" /\ ~fnOut.done /\ fnOut.step = "loadConfig"
    /\ \E ok \in BOOLEAN :
          fnOut' = IF ok THEN [fnOut EXCEPT !.step = "NewClient"]
                         ELSE ReturnErr(fnOut.client, "ConfigFailed")
    /\ UNCHANGED <<hostVars, callerVars, poolVars, fnArg>>

connectToQNAP_NewClient ==
    /\ fnArg.fn = "RunE" /\ ~fnOut.done /\ fnOut.step = "NewClient"
    /\ \E ok \in BOOLEAN :
          fnOut' = IF ok THEN [fnOut EXCEPT !.step = "Connect"]
                         ELSE ReturnErr(fnOut.client, "NewClientFailed")
    /\ UNCHANGED <<hostVars, callerVars, poolVars, fnArg>>

connectToQNAP_Connect ==
    /\ fnArg.fn = "RunE" /\ ~fnOut.done /\ fnOut.step = "Connect"
    /\ \E ok \in BOOLEAN :
          fnOut' = IF ok THEN [fnOut EXCEPT !.step = "TestConnection",
                                            !.client = "open"]
                         ELSE ReturnErr(fnOut.client, "ConnectFailed")
    /\ UNCHANGED <<hostVars, callerVars, poolVars, fnArg>>

connectToQNAP_TestConnection ==
    /\ fnArg.fn = "RunE" /\ ~fnOut.done /\ fnOut.step = "TestConnection"
    /\ \E ok \in BOOLEAN :
          fnOut' = IF ok THEN [fnOut EXCEPT !.step = "Initialize"]
                         ELSE ReturnErr(Close(fnOut.client),
                                        "TestConnectionFailed")
    /\ UNCHANGED <<hostVars, callerVars, poolVars, fnArg>>

connectToQNAP_Initialize ==
    /\ fnArg.fn = "RunE" /\ ~fnOut.done /\ fnOut.step = "Initialize"
    /\ \E ok \in BOOLEAN :
          fnOut' = IF ok THEN [fnOut EXCEPT !.step = "defer"]
                         ELSE ReturnErr(Close(fnOut.client),
                                        "InitializeFailed")
    /\ UNCHANGED <<hostVars, callerVars, poolVars, fnArg>>

RunE_defer ==
    /\ fnArg.fn = "RunE" /\ ~fnOut.done /\ fnOut.step = "defer"
    /\ fnOut' = [fnOut EXCEPT !.step = "body", !.deferred = TRUE]
    /\ UNCHANGED <<hostVars, callerVars, poolVars, fnArg>>

BodyResults(cmd, force) ==
    {"Success", "OperationFailed"} \cup
    (IF cmd \in Prompting /\ ~force THEN {"Declined"} ELSE {})

RunE_body ==
    /\ fnArg.fn = "RunE" /\ ~fnOut.done /\ fnOut.step = "body"
    /\ \E r \in BodyResults(fnArg.cmd, fnArg.force) :
          fnOut' = [fnOut EXCEPT !.step = "return", !.result = r]
    /\ UNCHANGED <<hostVars, callerVars, poolVars, fnArg>>

RunE_return ==
    /\ fnArg.fn = "RunE" /\ ~fnOut.done /\ fnOut.step = "return"
    /\ fnOut' = [fnOut EXCEPT !.done = TRUE, !.step = "returned",
                    !.client = IF fnOut.deferred THEN Close(fnOut.client)
                                                 ELSE fnOut.client]
    /\ UNCHANGED <<hostVars, callerVars, poolVars, fnArg>>

NextConn ==
    \/ RunE_loadConfig
    \/ connectToQNAP_NewClient
    \/ connectToQNAP_Connect
    \/ connectToQNAP_TestConnection
    \/ connectToQNAP_Initialize
    \/ RunE_defer
    \/ RunE_body
    \/ RunE_return

SpecConn == InitConn /\ [][NextConn]_vars

AfterOpen ==
    {"TestConnectionFailed", "InitializeFailed", "OperationFailed",
     "Declined", "Success"}

(* C20: once the SSH connection has been opened, a command that has         *)
(* returned has closed it, whichever way it returned: failed connection    *)
(* test, failed toolchain initialization, failed later operation, declined *)
(* confirmation or success; a command that never opened a connection       *)
(* returns with none.                                                      *)
C20_ConnectionClosed ==
    (fnArg.fn = "RunE" /\ fnOut.done) =>
        /\ fnOut.client # "open"
        /\ fnOut.result \in AfterOpen => fnOut.client = "closed"
        /\ fnOut.result \notin AfterOpen => fnOut.client = "nil"

C20_Witness ==
    /\ fnArg.fn = "RunE" /\ fnArg.cmd = "delete" /\ fnOut.done
    /\ fnOut.result = "Declined"
    /\ fnOut.client = "closed"

\* ------------------------------------------------ snapshot commands (C21)

\* The snapshot commands of the CLI run against a host described by facts:
\* the VM exists, the named snapshot exists for it, the list parsers keep
\* their rows, and each remote command succeeds or not as ok says.
SnapshotKinds == {"snapshot create", "snapshot restore", "snapshot delete"}

SnapshotVerbs == {"snapshot-create-as", "snapshot-revert", "snapshot-delete"}

SnapOk == [list : BOOLEAN, snaplist : BOOLEAN, info : BOOLEAN,
           current : BOOLEAN, run : BOOLEAN]

\* GetVM as the snapshot commands use it: any error is "not found".
SnapGetVM(a) == a.ok.list /\ a.vmExists /\ a.vmKept

GetSnapshotInfo_any(a) ==
    IF ~a.ok.snaplist
    THEN [found |-> FALSE, log |-> <<Cmd("snapshot-list", a.name, FALSE)>>]
    ELSE [found |-> TRUE,
          log |-> <<Cmd("snapshot-list", a.name, TRUE),
                    Cmd("snapshot-info", a.name, a.ok.info),
                    Cmd("snapshot-current", a.name, a.ok.current)>>]

\* GetSnapshotInfo: ListSnapshots, whose error is returned; when a parsed
\* row has the name, snapshot-info and snapshot-current are issued and their
\* errors ignored; otherwise "not found".
GetSnapshotInfo(a) ==
    IF ~a.ok.snaplist \/ ~(a.snapExists /\ a.snapKept)
    THEN [found |-> FALSE, log |-> <<Cmd("snapshot-list", a.name, a.ok.snaplist)>>]
    ELSE [found |-> TRUE,
          log |-> <<Cmd("snapshot-list", a.name, TRUE),
                    Cmd("snapshot-info", a.name, a.ok.info),
                    Cmd("snapshot-current", a.name, a.ok.current)>>]

SnapResult(err, log) == [done |-> TRUE, err |-> err, log |-> log]

createSnapshotCmd(a) ==
    LET l1 == <<Cmd("list", "", a.ok.list)>>
        r  == CreateSnapshot(a.name, <<a.ok.run>>)
    IN  IF ~SnapGetVM(a) THEN SnapResult("NotFound", l1)
        ELSE SnapResult(IF r.err THEN "Failed" ELSE "nil", l1 \o r.log)

\* restore and delete: GetVM, GetSnapshotInfo, confirmation, then the command.
guardedSnapshotCmd(a, r) ==
    LET l1 == <<Cmd("list", "", a.ok.list)>>
        si == GetSnapshotInfo(a)
    IN  IF ~SnapGetVM(a) THEN SnapResult("NotFound", l1)
        ELSE IF ~si.found THEN SnapResult("NotFound", l1 \o si.log)
        ELSE IF ~a.confirmed THEN SnapResult("nil", l1 \o si.log)
        ELSE SnapResult(IF r.err THEN "Failed" ELSE "nil", l1 \o si.log \o r.log)

restoreSnapshotCmd(a) == guardedSnapshotCmd(a, RestoreSnapshot(a.name, <<a.ok.run>>))

deleteSnapshotCmd(a) == guardedSnapshotCmd(a, DeleteSnapshot(a.name, <<a.ok.run>>))

InitSnap ==
    /\ Quiet
    /\ fnArg \in [fn : SnapshotKinds, name : Names, vmExists : BOOLEAN,
                  vmKept : BOOLEAN, snapExists : BOOLEAN, snapKept : BOOLEAN,
                  confirmed : BOOLEAN, ok : SnapOk]
    /\ fnOut = NoOut

CallCreateSnapshotCmd ==
    /\ fnArg.fn = "snapshot create" /\ ~fnOut.done
    /\ fnOut' = createSnapshotCmd(fnArg)
    /\ UNCHANGED <<hostVars, callerVars, poolVars, fnArg>>

CallRestoreSnapshotCmd ==
    /\ fnArg.fn = "snapshot restore" /\ ~fnOut.done
    /\ fnOut' = restoreSnapshotCmd(fnArg)
    /\ UNCHANGED <<hostVars, callerVars, poolVars, fnArg>>

CallDeleteSnapshotCmd ==
    /\ fnArg.fn = "snapshot delete" /\ ~fnOut.done
    /\ fnOut' = deleteSnapshotCmd(fnArg)
    /\ UNCHANGED <<hostVars, callerVars, poolVars, fnArg>>

NextSnap ==
    \/ CallCreateSnapshotCmd
    \/ CallRestoreSnapshotCmd
    \/ CallDeleteSnapshotCmd

SpecSnap == InitSnap /\ [][NextSnap]_vars

Issued(verb) == \E i \in 1..Len(fnOut.log) : fnOut.log[i].verb = verb

\* C21: a snapshot command issues snapshot-create-as, snapshot-revert or
\* snapshot-delete only if the VM exists; snapshot-revert is issued only if
\* the named snapshot exists for the VM, and a restore of a snapshot that
\* does not exist returns NotFound without issuing a revert.
C21_SnapshotGuards ==
    (fnArg.fn \in SnapshotKinds /\ fnOut.done) =>
        /\ (\E v \in SnapshotVerbs : Issued(v)) => fnArg.vmExists
        /\ Issued("snapshot-revert") => fnArg.snapExists
        /\ (fnArg.fn = "snapshot restore" /\ ~fnArg.snapExists) =>
               fnOut.err = "NotFound" /\ ~Issued("snapshot-revert")

C21_Witness ==
    /\ fnArg.fn = "snapshot restore" /\ fnOut.done
    /\ fnArg.vmExists /\ fnArg.vmKept /\ fnArg.ok.list /\ fnArg.ok.snaplist
    /\ ~fnArg.snapExists /\ fnArg.confirmed
    /\ fnOut.err = "NotFound"
    /\ Issued("snapshot-list")

\* ------------------------------------------------------ linked clone (C22)

\* The source of a clone was listed as running by the GetVMDetails call of
\* the clone strategy.
SourceSeenRunning(p) == InCmd(p, "clone") /\ Contains(loc[p].state, "running")

\* C22 as stated: a clone with the "linked" flag issues the commands of the
\* manual strategy: when it writes the target's description and the source
\* was listed as running, it has stopped the source first, and when it has
\* returned success it has started the source again.
C22_Claim ==
    \A p \in Callers :
        (op[p].linked /\ SourceSeenRunning(p) /\ IssuedVerb(p, "write-xml")) =>
            /\ IssuedVerb(p, StopVerb(FALSE))
            /\ (pc[p] = Done /\ res[p] = "ok") => IssuedVerb(p, "start")

\* ---------------------------------------------- Client.CloneVM, full (C23)

\* CloneVM without the linked flag, run against a host described by facts:
\* the listed state of the source (Absent for none), whether the target is
\* defined, the source's memory and CPU count, and which commands succeed.
CloneOk == [list1 : BOOLEAN, list2 : BOOLEAN, virtclone : BOOLEAN,
            list3 : BOOLEAN, dominfo : BOOLEAN, stop : BOOLEAN,
            write : BOOLEAN, define : BOOLEAN, rm : BOOLEAN, start : BOOLEAN]

SourceMemories == {1024, 4096}

SourceCPUs == {2}

NoConfig == [Memory |-> -1, CPUs |-> -1, DiskPath |-> ""]

\* CreateVM: write the document, define it (an error returns before the
\* cleanup), remove the document (error ignored).
CreateVM(name, config, free, ok) ==
    LET w == Cmd("write-xml", name, ok.write)
        d == Cmd("define", name, ok.define /\ free)
        r == Cmd("rm-xml", name, ok.rm)
    IN  IF ~ok.write THEN [err |-> TRUE, log |-> <<w>>]
        ELSE IF ~d.ok THEN [err |-> TRUE, log |-> <<w, d>>]
        ELSE [err |-> FALSE, log |-> <<w, d, r>>]

\* What GetVMDetails returns for the source: dominfo's figures when the
\* command succeeded, zero otherwise.
VMDetails(a) ==
    IF a.ok.dominfo THEN [Memory |-> a.mem, CPUs |-> a.cpus]
    ELSE [Memory |-> 0, CPUs |-> 0]

CloneResult(err, log, config, running) ==
    [done |-> TRUE, err |-> err, log |-> log, config |-> config,
     srcRunning |-> running]

manualCloneVM(a) ==
    LET det == GetVMDetails(a.name, a.srcState # Absent,
                            <<a.ok.list3, TRUE, a.ok.dominfo>>)
        wasRunning == Contains(a.srcState, "running")
        stop == IF wasRunning
                THEN <<Cmd(StopVerb(FALSE), a.name, a.ok.stop)>> ELSE <<>>
        config == [Memory |-> VMDetails(a).Memory, CPUs |-> VMDetails(a).CPUs,
                   DiskPath |-> ""]
        cr == CreateVM(a.target, config, ~a.tgtExists, a.ok)
        defined == IF Len(cr.log) >= 2 THEN config ELSE NoConfig
        start == <<Cmd("start", a.name, a.ok.start)>>
    IN  IF det.err THEN CloneResult("DetailsFailed", det.log, NoConfig, wasRunning)
        ELSE IF wasRunning /\ ~a.ok.stop
        THEN CloneResult("StopFailed", det.log \o stop, NoConfig, wasRunning)
        ELSE IF cr.err
        THEN CloneResult("CreateFailed", det.log \o stop \o cr.log, defined, FALSE)
        ELSE IF ~wasRunning
        THEN CloneResult("nil", det.log \o stop \o cr.log, defined, FALSE)
        ELSE IF ~a.ok.start
        THEN CloneResult("StartFailed", det.log \o stop \o cr.log \o start,
                         defined, FALSE)
        ELSE CloneResult("nil", det.log \o stop \o cr.log \o start, defined, TRUE)

\* CloneVM: source must be found, target must not be (a failed list counts as
\* "not there"); the clone tool; manualCloneVM when the tool returns an error.
CloneVM(a) ==
    LET l1 == <<Cmd("list", "", a.ok.list1)>>
        l2 == <<Cmd("list", "", a.ok.list2)>>
        vc == <<Cmd("virt-clone", a.target, a.ok.virtclone /\ ~a.tgtExists)>>
        wasRunning == Contains(a.srcState, "running")
        m  == manualCloneVM(a)
    IN  IF ~a.ok.list1 \/ a.srcState = Absent
        THEN CloneResult("NotFound", l1, NoConfig, wasRunning)
        ELSE IF a.ok.list2 /\ a.tgtExists
        THEN CloneResult("AlreadyExists", l1 \o l2, NoConfig, wasRunning)
        ELSE IF vc[1].ok
        THEN CloneResult("nil", l1 \o l2 \o vc, NoConfig, wasRunning)
        ELSE [m EXCEPT !.log = l1 \o l2 \o vc \o m.log]

InitClone ==
    /\ Quiet
    /\ fnArg \in [fn : {"CloneVM"}, name : {"alpha"}, target : {"beta"},
                  srcState : {Absent} \cup StateTokens, tgtExists : BOOLEAN,
                  mem : SourceMemories, cpus : SourceCPUs, ok : CloneOk]
    /\ fnOut = NoOut

CallCloneVM ==
    /\ fnArg.fn = "CloneVM" /\ ~fnOut.done
    /\ fnOut' = CloneVM(fnArg)
    /\ UNCHANGED <<hostVars, callerVars, poolVars, fnArg>>

NextClone ==
    \/ CallCloneVM

SpecClone == InitClone /\ [][NextClone]_vars

\* Position of the first command with the verb in the log, 0 if none.
FirstAt(log, verb) ==
    IF \E i \in 1..Len(log) : log[i].verb = verb
    THEN CHOOSE i \in 1..Len(log) :
            /\ log[i].verb = verb
            /\ \A j \in 1..(i - 1) : log[j].verb # verb
    ELSE 0

Manual == FirstAt(fnOut.log, "dominfo") > 0

\* The order of the manual strategy: stop iff the source was running, before
\* the target is created; start iff it had been running, after the target
\* was defined.
C23_Order ==
    (fnArg.fn = "CloneVM" /\ fnOut.done) =>
        LET log == fnOut.log
            wasRunning == Contains(fnArg.srcState, "running")
            stopAt == FirstAt(log, StopVerb(FALSE))
            writeAt == FirstAt(log, "write-xml")
            defAt == FirstAt(log, "define")
            startAt == FirstAt(log, "start")
        IN  /\ stopAt > 0 => Manual /\ wasRunning
            /\ writeAt > 0 => (stopAt > 0 <=> wasRunning)
            /\ writeAt > 0 /\ stopAt > 0 => stopAt < writeAt /\ log[stopAt].ok
            /\ startAt > 0 => wasRunning /\ defAt > 0 /\ defAt < startAt /\ log[defAt].ok
            /\ (Manual /\ fnOut.err = "nil") => (startAt > 0 <=> wasRunning)

\* Clone requires an existing source and an undefined target, and leaves a
\* source running exactly when it was running.
C23_Requires ==
    (fnArg.fn = "CloneVM" /\ fnOut.done /\ fnOut.err = "nil") =>
        /\ fnArg.srcState # Absent
        /\ ~fnArg.tgtExists
        /\ fnOut.srcRunning <=> Contains(fnArg.srcState, "running")

\* The target is created with the source's memory and CPU count.
C23_Profile ==
    (fnArg.fn = "CloneVM" /\ fnOut.done /\ FirstAt(fnOut.log, "define") > 0) =>
        /\ fnOut.config.Memory = fnArg.mem
        /\ fnOut.config.CPUs = fnArg.cpus

\* C23 as stated: the manual clone strategy stops the source iff it was
\* running, then creates the target with the source's memory and CPU count,
\* then starts the source again iff it had been running; clone requires the
\* source to exist and the target to be undefined, and after a successful
\* clone the source is running exactly when it was running before.
C23_Claim == C23_Order /\ C23_Requires /\ C23_Profile

\* ----------------------------------------- the description document (C24)

CountVerb(p, verb) == Cardinality({i \in 1..Len(cmds[p]) : cmds[p][i].verb = verb})

\* C24 as stated: once a create has written the machine description, it runs
\* exactly one define on it and then attempts the deletion of the document,
\* whether or not the define succeeded; the result of create is that of the
\* define, whatever the deletion did.
C24_Claim ==
    \A p \in Callers :
        (Ended(p, "create") /\ Cmd("write-xml", op[p].name, TRUE) \in
                                  {cmds[p][i] : i \in 1..Len(cmds[p])}) =>
            /\ CountVerb(p, "write-xml") = 1
            /\ CountVerb(p, "define") = 1
            /\ CountVerb(p, "rm-xml") = 1
            /\ cmds[p][Len(cmds[p])].verb = "rm-xml"
            /\ res[p] = "ok" <=> Cmd("define", op[p].name, TRUE) \in
                                    {cmds[p][i] : i \in 1..Len(cmds[p])}

\* --------------------------------------- the client's search path (C25)

\* The environment prefix execVirsh and setupEnvironment put before virsh:
\* LD_LIBRARY_PATH and PATH built from the cached root.
SearchPath(qvsPath) ==
    [lib |-> qvsPath \o "/usr/lib:" \o qvsPath \o "/usr/lib64/",
     path |-> "$PATH:" \o qvsPath \o "/usr/bin/:" \o qvsPath \o "/usr/sbin/"]

NoSearchPath == [lib |-> "", path |-> ""]

Remote(verb, prefix) == [verb |-> verb, prefix |-> prefix]

execVirsh_bare(qvsPath, verb) == Remote(verb, NoSearchPath)

\* execVirsh: the command sent for `virsh <verb>`.
execVirsh(qvsPath, verb) == Remote(verb, SearchPath(qvsPath))

\* sshClient.Execute called by the client directly: the command as given.
ExecutePlain(verb) == Remote(verb, NoSearchPath)

VirshVerbs == {"list", "start", "define", "version"}

\* One virsh client on one host: Initialize resolves the root, then the
\* client's operations run in any order.
InitEnv ==
    /\ Quiet
    /\ fnArg \in [fn : {"Client"}, dir : [Roots -> BOOLEAN],
                  ran : [Roots -> BOOLEAN], virsh : [Roots -> BOOLEAN]]
    /\ fnOut = [done |-> FALSE, resolved |-> FALSE, qvsPath |-> "",
                resolvedAs |-> "", log |-> <<>>]

Client_Initialize ==
    /\ fnArg.fn = "Client" /\ ~fnOut.done /\ ~fnOut.resolved
    /\ LET r == Initialize(fnArg) IN
       fnOut' = [fnOut EXCEPT !.qvsPath = r.qvsPath,
                              !.resolvedAs = r.qvsPath,
                              !.resolved = (r.err = "nil"),
                              !.done = (r.err # "nil")]
    /\ UNCHANGED <<hostVars, callerVars, poolVars, fnArg>>

\* Any operation that is a single virsh command (list, start, ...).
Client_execVirsh ==
    /\ fnArg.fn = "Client" /\ fnOut.resolved /\ Len(fnOut.log) < MaxCmds
    /\ \E verb \in {"list", "start"} :
          fnOut' = [fnOut EXCEPT !.log = Append(@, execVirsh(fnOut.qvsPath, verb))]
    /\ UNCHANGED <<hostVars, callerVars, poolVars, fnArg>>

\* IsVirshAvailable: setupEnvironment again, with the cached root.
Client_IsVirshAvailable ==
    /\ fnArg.fn = "Client" /\ fnOut.resolved /\ Len(fnOut.log) < MaxCmds
    /\ fnOut' = [fnOut EXCEPT !.log = Append(@, execVirsh(fnOut.qvsPath, "version"))]
    /\ UNCHANGED <<hostVars, callerVars, poolVars, fnArg>>

\* CreateVM: cat > file and rm -f through sshClient.Execute, define through
\* execVirsh.
Client_CreateVM ==
    /\ fnArg.fn = "Client" /\ fnOut.resolved /\ Len(fnOut.log) < MaxCmds
    /\ \E defined \in BOOLEAN :
          fnOut' = [fnOut EXCEPT !.log =
                        @ \o <<ExecutePlain("write-xml"),
                               execVirsh(fnOut.qvsPath, "define")>>
                          \o (IF defined THEN <<ExecutePlain("rm-xml")>> ELSE <<>>)]
    /\ UNCHANGED <<hostVars, callerVars, poolVars, fnArg>>

NextEnv ==
    \/ Client_Initialize
    \/ Client_execVirsh
    \/ Client_IsVirshAvailable
    \/ Client_CreateVM

SpecEnv == InitEnv /\ [][NextEnv]_vars

\* C25 as stated: once the root is resolved, every command the client runs
\* on the remote host carries the search-path prefix built from that root,
\* and the cached root does not change.
C25_Original ==
    (fnArg.fn = "Client" /\ fnOut.resolved) =>
        /\ fnOut.qvsPath = fnOut.resolvedAs
        /\ \A i \in 1..Len(fnOut.log) :
              fnOut.log[i].prefix = SearchPath(fnOut.resolvedAs)

\* C25 amended: once the root is resolved, every virsh command the client
\* runs carries the search-path prefix built from that root, and the cached
\* root does not change; the two file commands of CreateVM (writing and
\* removing the description document) are sent without any prefix.
C25_Amended ==
    (fnArg.fn = "Client" /\ fnOut.resolved) =>
        /\ fnOut.qvsPath = fnOut.resolvedAs
        /\ fnOut.qvsPath \in Roots
        /\ \A i \in 1..Len(fnOut.log) :
              fnOut.log[i].prefix =
                  IF fnOut.log[i].verb \in VirshVerbs
                  THEN SearchPath(fnOut.resolvedAs) ELSE NoSearchPath

C25_Witness ==
    /\ fnArg.fn = "Client" /\ fnOut.resolved /\ fnOut.qvsPath = "/KVM"
    /\ Len(fnOut.log) >= 4
    /\ fnOut.log[1] = Remote("list", SearchPath("/KVM"))
    /\ fnOut.log[2] = Remote("write-xml", NoSearchPath)
    /\ fnOut.log[3] = Remote("define", SearchPath("/KVM"))
    /\ fnOut.log[4] = Remote("rm-xml", NoSearchPath)

\* ------------------------------------------- capacity of the pools (C26)

\* SIZE column of `zpool list -H` for the ZFS pool of the host.
ZpoolSizes == {SizeString(2, <<>>, "T"), SizeString(500, <<>>, "G"), <<"-">>}

\* What `df -BG <path> | tail -n 1` gives: an error, a line of fewer than
\* four fields, or a line with the three capacities.
DfOutcomes == {"error", "short", "ok"}

NoUsage == [Total |-> 0, Used |-> 0, Free |-> 0]

\* The Pool each probe builds: only detectZFSPools fills TotalSpace, from the
\* SIZE column when parseSize makes it positive.
DetectedPool(pool, zsize) ==
    [Name |-> pool.name, Type |-> pool.type, Available |-> TRUE,
     TotalSpace |-> IF pool.type = "ZFS" /\ parseSize(zsize) > 0
                    THEN parseSize(zsize) ELSE 0,
     UsedSpace |-> 0, FreeSpace |-> 0]

\* getDiskUsage: [err, usage]; each field is set when its parseSize is
\* positive.  The host's line is "<free+1>G 1G <free>G".
getDiskUsage(pool, df) ==
    IF df = "error" THEN [err |-> TRUE, usage |-> NoUsage]
    ELSE IF df = "short" THEN [err |-> FALSE, usage |-> NoUsage]
    ELSE [err |-> FALSE,
          usage |-> [Total |-> parseSize(SizeString(pool.free + 1, <<>>, "G")),
                     Used |-> parseSize(SizeString(1, <<>>, "G")),
                     Free |-> parseSize(SizeString(pool.free, <<>>, "G"))]]

WithUsage_zeroed(detected, du) ==
    [detected EXCEPT !.TotalSpace = du.usage.Total,
                     !.UsedSpace = du.usage.Used,
                     !.FreeSpace = du.usage.Free]

\* The loop `for i := range pools` of DetectPools: the three fields are
\* assigned only when getDiskUsage returned no error.
WithUsage(detected, du) ==
    IF du.err THEN detected
    ELSE [detected EXCEPT !.TotalSpace = du.usage.Total,
                          !.UsedSpace = du.usage.Used,
                          !.FreeSpace = du.usage.Free]

\* DetectPools with every capacity field.
DetectPoolsCapacity(cfg, probeOk, zsize, df) ==
    LET found == SelectSeq(cfg, LAMBDA p : probeOk[p.type])
    IN  [i \in 1..Len(found) |->
            WithUsage(DetectedPool(found[i], zsize),
                      getDiskUsage(found[i], df[found[i].name]))]

InitCapacity ==
    /\ Quiet
    /\ fnArg \in [fn : {"DetectPools"}, cfg : DetectLayouts,
                  probeOk : [PoolTypes -> BOOLEAN], zsize : ZpoolSizes,
                  df : [AllPoolNames -> DfOutcomes]]
    /\ fnOut = NoOut

CallDetectPools ==
    /\ fnArg.fn = "DetectPools" /\ ~fnOut.done
    /\ fnOut' = [done |-> TRUE,
                 pools |-> DetectPoolsCapacity(fnArg.cfg, fnArg.probeOk,
                                               fnArg.zsize, fnArg.df)]
    /\ UNCHANGED <<hostVars, callerVars, poolVars, fnArg>>

NextCapacity ==
    \/ CallDetectPools

SpecCapacity == InitCapacity /\ [][NextCapacity]_vars

\* The pools whose probe ran, and among them those whose df erred.
Discovered == {i \in 1..Len(fnArg.cfg) : fnArg.probeOk[fnArg.cfg[i].type]}

LookupFailed(name) == fnArg.df[name] = "error"

\* C26 as stated: every discovered pool is in the result, and one whose
\* capacity lookup failed has total, used and free capacity zero.
C26_Original ==
    (fnArg.fn = "DetectPools" /\ fnOut.done) =>
        /\ Len(fnOut.pools) = Cardinality(Discovered)
        /\ \A i \in Discovered : \E j \in 1..Len(fnOut.pools) :
              fnOut.pools[j].Name = fnArg.cfg[i].name
        /\ \A j \in 1..Len(fnOut.pools) :
              LookupFailed(fnOut.pools[j].Name) =>
                  /\ fnOut.pools[j].TotalSpace = 0
                  /\ fnOut.pools[j].UsedSpace = 0
                  /\ fnOut.pools[j].FreeSpace = 0

\* C26 amended: every discovered pool is in the result whatever its capacity
\* lookup did; after a failed lookup its used and free capacity are zero,
\* and its total capacity is zero for a CACHEDEV or USB pool, while a ZFS
\* pool keeps the total that `zpool list` reported (zero when that size
\* does not parse to a positive number of gigabytes).
C26_Amended ==
    (fnArg.fn = "DetectPools" /\ fnOut.done) =>
        /\ Len(fnOut.pools) = Cardinality(Discovered)
        /\ \A i \in Discovered : \E j \in 1..Len(fnOut.pools) :
              fnOut.pools[j].Name = fnArg.cfg[i].name
        /\ \A j \in 1..Len(fnOut.pools) :
              LookupFailed(fnOut.pools[j].Name) =>
                  /\ fnOut.pools[j].UsedSpace = 0
                  /\ fnOut.pools[j].FreeSpace = 0
                  /\ fnOut.pools[j].TotalSpace =
                        IF fnOut.pools[j].Type = "ZFS"
                        THEN parseSize(fnArg.zsize) ELSE 0

\* A host with a cache volume and a 2T ZFS pool, every df failing: both pools
\* are returned, the ZFS pool with total 2048 and free 0.
C26_Witness ==
    /\ fnArg.fn = "DetectPools" /\ fnOut.done
    /\ fnArg.cfg = <<cache1, zfs1>>
    /\ \A n \in AllPoolNames : LookupFailed(n)
    /\ Len(fnOut.pools) = 2
    /\ fnOut.pools[1].TotalSpace = 0 /\ fnOut.pools[1].FreeSpace = 0
    /\ fnOut.pools[2].TotalSpace = 2048 /\ fnOut.pools[2].FreeSpace = 0

\* --------------------------------------------- list parsers on any text (C27)

\* strings.Contains(line, "Creation Time"): two neighbouring tokens, one
\* ending in "Creation" and the next starting with "Time", one space apart
\* as virsh prints them.
CreationTok == <<"C", "r", "e", "a", "t", "i", "o", "n">>
TimeTok == <<"T", "i", "m", "e">>

EndsWith(tok, sub) ==
    Len(tok) >= Len(sub) /\ SubSeq(tok, Len(tok) - Len(sub) + 1, Len(tok)) = sub
StartsWith(tok, sub) ==
    Len(tok) >= Len(sub) /\ SubSeq(tok, 1, Len(sub)) = sub

IsSnapshotHeader(line) ==
    /\ LineContains(line, <<"N", "a", "m", "e">>)
    /\ \E k \in 1..(Len(line) - 1) :
          EndsWith(line[k], CreationTok) /\ StartsWith(line[k + 1], TimeTok)
    /\ LineContains(line, <<"S", "t", "a", "t", "e">>)

RECURSIVE SnapshotDataLines(_, _)
\* The first loop of parseSnapshotList.
SnapshotDataLines(lines, headerFound) ==
    IF Len(lines) = 0 THEN <<>>
    ELSE IF IsSnapshotHeader(lines[1]) THEN SnapshotDataLines(Tail(lines), TRUE)
    ELSE IF headerFound /\ Len(lines[1]) # 0
              /\ ~LineContains(lines[1], <<"-", "-", "-">>)
         THEN <<lines[1]>> \o SnapshotDataLines(Tail(lines), headerFound)
         ELSE SnapshotDataLines(Tail(lines), headerFound)

\* One SnapshotInfo of the second loop.
SnapshotInfoOf(fields) ==
    [Name |-> fields[1],
     CreationTime |-> JoinSpace(SubSeq(fields, 2, 4)),
     State |-> JoinSpace(SubSeq(fields, 5, Len(fields)))]

\* parseSnapshotList: the records of the data lines with five fields or more.
parseSnapshotList(lines) ==
    LET data == SelectSeq(SnapshotDataLines(lines, FALSE), LAMBDA l : Len(l) >= 5)
    IN  [i \in 1..Len(data) |-> SnapshotInfoOf(data[i])]

SnapshotHeader == <<<<"N", "a", "m", "e">>, CreationTok, TimeTok,
                    <<"S", "t", "a", "t", "e">>>>

DateToks == <<<<"2", "0", "2", "4", "-", "0", "9", "-", "1", "5">>,
              <<"1", "2", ":", "3", "4", ":", "5", "6">>,
              <<"+", "0", "0", "0", "0">>>>

\* The lines a listing is made of here: header, separator, a row, a row
\* whose name holds "---", a row with too few tokens, a blank line and a
\* line of other text.
VMTextLines ==
    {ListHeader, ListSeparator,
     <<<<"1">>, <<"v", "m", "1">>, <<"r", "u", "n", "n", "i", "n", "g">>>>,
     <<<<"-">>, <<"w", "e", "b", "-", "-", "-", "0", "1">>, <<"s", "h", "u", "t">>,
       <<"o", "f", "f">>>>,
     <<<<"7">>, <<"l", "o", "n", "e", "l", "y">>>>,
     <<>>,
     <<<<"e", "r", "r", "o", "r", ":">>>>}

SnapshotTextLines ==
    {SnapshotHeader, ListSeparator,
     <<<<"s", "n", "a", "p", "1">>>> \o DateToks \o <<<<"s", "h", "u", "t", "o", "f", "f">>>>,
     <<<<"p", "r", "e", "-", "-", "-", "u", "p">>>> \o DateToks
         \o <<<<"r", "u", "n", "n", "i", "n", "g">>>>,
     <<<<"s", "n", "a", "p", "2">>, DateToks[1]>>,
     <<>>,
     <<<<"e", "r", "r", "o", "r", ":">>>>}

TextsOf(alphabet) == UNION {[1..k -> alphabet] : k \in 0..(MaxRows + 2)}

InitParse ==
    /\ Quiet
    /\ fnArg \in {[fn |-> "parseVMList", lines |-> t] : t \in TextsOf(VMTextLines)}
                 \cup {[fn |-> "parseSnapshotList", lines |-> t] :
                          t \in TextsOf(SnapshotTextLines)}
    /\ fnOut = NoOut

CallParseVMListText ==
    /\ fnArg.fn = "parseVMList" /\ ~fnOut.done
    /\ fnOut' = [done |-> TRUE, err |-> FALSE, recs |-> parseVMList(fnArg.lines)]
    /\ UNCHANGED <<hostVars, callerVars, poolVars, fnArg>>

CallParseSnapshotList ==
    /\ fnArg.fn = "parseSnapshotList" /\ ~fnOut.done
    /\ fnOut' = [done |-> TRUE, err |-> FALSE, recs |-> parseSnapshotList(fnArg.lines)]
    /\ UNCHANGED <<hostVars, callerVars, poolVars, fnArg>>

NextParse ==
    \/ CallParseVMListText
    \/ CallParseSnapshotList

SpecParse == InitParse /\ [][NextParse]_vars

IsHeaderLine(line) ==
    IF fnArg.fn = "parseVMList" THEN IsListHeader(line) ELSE IsSnapshotHeader(line)

MinTokens == IF fnArg.fn = "parseVMList" THEN 3 ELSE 5

IsDashes(line) ==
    Len(line) > 0 /\ \A k \in 1..Len(line) : \A i \in 1..Len(line[k]) : line[k][i] = "-"

\* A row of the table: enough tokens, and neither header nor separator.
WellFormed(line) ==
    Len(line) >= MinTokens /\ ~IsHeaderLine(line) /\ ~IsDashes(line)

HeaderAt ==
    IF \E i \in 1..Len(fnArg.lines) : IsHeaderLine(fnArg.lines[i])
    THEN CHOOSE i \in 1..Len(fnArg.lines) :
            /\ IsHeaderLine(fnArg.lines[i])
            /\ \A j \in 1..(i - 1) : ~IsHeaderLine(fnArg.lines[j])
    ELSE 0

RowsBelowHeader ==
    IF HeaderAt = 0 THEN <<>>
    ELSE SelectSeq(SubSeq(fnArg.lines, HeaderAt + 1, Len(fnArg.lines)), WellFormed)

RecordOf(line) ==
    IF fnArg.fn = "parseVMList" THEN VMInfoOf(line) ELSE SnapshotInfoOf(line)

\* C27 as stated: a list parser returns no error on any text; the result
\* holds one record for every well-formed line below the header, in order,
\* the lines with too few tokens between them being skipped; a text with no
\* header gives the empty result, as a table of the header alone does.
C27_Claim ==
    (fnArg.fn \in {"parseVMList", "parseSnapshotList"} /\ fnOut.done) =>
        /\ ~fnOut.err
        /\ HeaderAt = 0 => fnOut.recs = <<>>
        /\ Len(fnOut.recs) = Len(RowsBelowHeader)
        /\ \A i \in 1..Len(fnOut.recs) : fnOut.recs[i] = RecordOf(RowsBelowHeader[i])

\* ------------------------------------------------ parseDomainInfo alone (C28)

\* A line of `virsh dominfo` is its sequence of characters, trimmed.
MaxMemoryKey == <<"M", "A", "X", " ", "M", "E", "M", "O", "R", "Y", ":">>
CPUKey == <<"C", "P", "U", "(", "S", ")", ":">>
KiBUnit == <<"K", "I", "B">>

\* A match of `(?i)<key>\s*(\d+)\s*<unit>` starting at i in the line:
\* [found, digits]; unit <<>> for a pattern that ends with the digits.
InfoMatchAt(line, i, key, unit) ==
    LET up == ToUpper(line) IN
    IF i + Len(key) - 1 > Len(up) \/ SubSeq(up, i, i + Len(key) - 1) # key
    THEN [found |-> FALSE, digits |-> <<>>]
    ELSE LET ds == SkipWhile(up, i + Len(key), SpaceSet)
             de == SkipWhile(up, ds, DigitSet)
             us == SkipWhile(up, de, SpaceSet)
         IN  [found |-> /\ de > ds
                        /\ us + Len(unit) - 1 <= Len(up)
                        /\ SubSeq(up, us, us + Len(unit) - 1) = unit,
              digits |-> SubSeq(up, ds, de - 1)]

\* FindStringSubmatch: the leftmost match, [found, digits].
InfoMatch(line, key, unit) ==
    IF \E i \in 1..Len(line) : InfoMatchAt(line, i, key, unit).found
    THEN InfoMatchAt(line,
                     CHOOSE i \in 1..Len(line) :
                         /\ InfoMatchAt(line, i, key, unit).found
                         /\ \A j \in 1..(i - 1) : ~InfoMatchAt(line, j, key, unit).found,
                     key, unit)
    ELSE [found |-> FALSE, digits |-> <<>>]

KiBToMiB_asIs(kib) == kib

\* memory = mem / 1024
KiBToMiB(kib) == kib \div 1024

RECURSIVE parseDomainInfoFrom(_, _, _)
\* The loop over the lines, with the values found so far.
parseDomainInfoFrom(lines, memory, cpus) ==
    IF Len(lines) = 0 THEN [memory |-> memory, cpus |-> cpus]
    ELSE LET m == InfoMatch(lines[1], MaxMemoryKey, KiBUnit)
             c == InfoMatch(lines[1], CPUKey, <<>>)
         IN  parseDomainInfoFrom(Tail(lines),
                 IF m.found THEN KiBToMiB(DigitsValue(m.digits)) ELSE memory,
                 IF c.found THEN DigitsValue(c.digits) ELSE cpus)

parseDomainInfo(lines) == parseDomainInfoFrom(lines, 0, 0)

\* Lines of the sample output of TestParseDomainInfo, with the figures varied.
InfoLine(label, value, unit) ==
    label \o <<":", " ", " ", " ">> \o value
        \o (IF Len(unit) = 0 THEN <<>> ELSE <<" ">> \o unit)

MaxMemoryLabels == {<<"M", "a", "x", " ", "m", "e", "m", "o", "r", "y">>,
                    <<"m", "a", "x", " ", "m", "e", "m", "o", "r", "y">>}
UsedMemoryLine ==
    InfoLine(<<"U", "s", "e", "d", " ", "m", "e", "m", "o", "r", "y">>,
             ToDigits(2097152), <<"K", "i", "B">>)
CPUTimeLine == InfoLine(<<"C", "P", "U", " ", "t", "i", "m", "e">>,
                        <<"1", "2", "3", ".", "4", "s">>, <<>>)
StateLine == InfoLine(<<"S", "t", "a", "t", "e">>,
                      <<"r", "u", "n", "n", "i", "n", "g">>, <<>>)

MemoryKiBValues == {4194304, 1048576, 1048575, 1536, 1023, 0}

\* The dominfo inputs: with or without a "Max memory" line (in KiB, or in
\* another unit that the pattern does not match), with or without a
\* "CPU(s)" line.
InfoInputs ==
    [fn : {"parseDomainInfo"}, hasMem : BOOLEAN, label : MaxMemoryLabels,
     kib : MemoryKiBValues, unit : {<<"K", "i", "B">>, <<"b", "y", "t", "e", "s">>},
     hasCPU : BOOLEAN, cpu : 1..MaxCPUs]

InfoText(a) ==
    <<<<>>, StateLine>>
    \o (IF a.hasCPU THEN <<InfoLine(<<"C", "P", "U", "(", "s", ")">>,
                                    ToDigits(a.cpu), <<>>)>> ELSE <<>>)
    \o <<CPUTimeLine>>
    \o (IF a.hasMem THEN <<InfoLine(a.label, ToDigits(a.kib), a.unit)>> ELSE <<>>)
    \o <<UsedMemoryLine, <<>>>>

InitInfo ==
    /\ Quiet
    /\ fnArg \in InfoInputs
    /\ fnOut = NoOut

CallParseDomainInfo ==
    /\ fnArg.fn = "parseDomainInfo" /\ ~fnOut.done
    /\ fnOut' = [done |-> TRUE, r |-> parseDomainInfo(InfoText(fnArg))]
    /\ UNCHANGED <<hostVars, callerVars, poolVars, fnArg>>

NextInfo ==
    \/ CallParseDomainInfo

SpecInfo == InitInfo /\ [][NextInfo]_vars

MemoryMatched == fnArg.hasMem /\ fnArg.unit = <<"K", "i", "B">>

\* C28: memory is the "Max memory" KiB figure divided by 1024 rounding down
\* (4194304 gives 4096), the CPU count is the "CPU(s)" figure, and each is 0
\* when its line is missing or does not match, whatever the other is.
C28_DomainInfo ==
    (fnArg.fn = "parseDomainInfo" /\ fnOut.done) =>
        /\ MemoryMatched =>
              /\ fnOut.r.memory * 1024 <= fnArg.kib
              /\ fnArg.kib < (fnOut.r.memory + 1) * 1024
        /\ ~MemoryMatched => fnOut.r.memory = 0
        /\ fnOut.r.cpus = IF fnArg.hasCPU THEN fnArg.cpu ELSE 0
        /\ (MemoryMatched /\ fnArg.kib = 4194304) => fnOut.r.memory = 4096

\* The memory line of the test sample without a CPU(s) line: 4096 and 0.
C28_Witness ==
    /\ fnArg.fn = "parseDomainInfo" /\ fnOut.done
    /\ MemoryMatched /\ fnArg.kib = 4194304 /\ ~fnArg.hasCPU
    /\ fnOut.r = [memory |-> 4096, cpus |-> 0]

\* ------------------------------------------------------ loadConfig alone (C29)

\* A flag the user did not give on the command line.
NotGiven == "not given"

\* cmd.Flags().GetString / GetInt: the given value, else the flag's default
\* ("" for host, username and keyfile, 22 for port).
FlagString(given) == IF given = NotGiven THEN "" ELSE given
FlagPort(flags) == IF flags.PortGiven THEN flags.Port ELSE 22

\* The override built from the flags: a field is set when the flag's value
\* differs from the flag's default.
FlagConfig(flags) ==
    [Host |-> FlagString(flags.Host),
     Username |-> FlagString(flags.Username),
     Port |-> IF FlagPort(flags) # 22 THEN FlagPort(flags) ELSE 0,
     KeyFile |-> FlagString(flags.KeyFile)]

\* Config.MergeWith: a non-zero field of other replaces the field.
MergeWith(c, other) ==
    [Host |-> IF other.Host # "" THEN other.Host ELSE c.Host,
     Username |-> IF other.Username # "" THEN other.Username ELSE c.Username,
     Port |-> IF other.Port # 0 THEN other.Port ELSE c.Port,
     KeyFile |-> IF other.KeyFile # "" THEN other.KeyFile ELSE c.KeyFile]

\* Config.SetDefaults
SetDefaults(c) == IF c.Port = 0 THEN [c EXCEPT !.Port = 22] ELSE c

\* Config.Validate: TRUE when the configuration is accepted.
Validate(c) == c.Host # "" /\ c.Username # "" /\ c.Port > 0 /\ c.Port <= 65535

\* loadConfig: [cfg, err].
loadConfig(file, flags) ==
    LET cfg == SetDefaults(MergeWith(file, FlagConfig(flags)))
    IN  [cfg |-> cfg, err |-> ~Validate(cfg)]

\* Config files (a field the file does not set is "" or 0) and command lines.
FileConfigs ==
    [Host : {"", "192.168.1.100"}, Username : {"", "admin"},
     Port : {0, 22, 2222}, KeyFile : {"", "~/.ssh/id_rsa"}]

FlagSets ==
    [Host : {NotGiven, "192.168.1.200"}, Username : {NotGiven, "root"},
     PortGiven : BOOLEAN, Port : {22, 2200},
     KeyFile : {NotGiven, "~/.ssh/nas_key"}]

InitConfig ==
    /\ Quiet
    /\ fnArg \in [fn : {"loadConfig"}, file : FileConfigs, flags : FlagSets]
    /\ fnOut = NoOut

CallLoadConfig ==
    /\ fnArg.fn = "loadConfig" /\ ~fnOut.done
    /\ fnOut' = [done |-> TRUE, r |-> loadConfig(fnArg.file, fnArg.flags)]
    /\ UNCHANGED <<hostVars, callerVars, poolVars, fnArg>>

NextConfig ==
    \/ CallLoadConfig

SpecConfig == InitConfig /\ [][NextConfig]_vars

\* The effective value of a field: the flag's value when the flag was given,
\* else the file's value.
Precedence(given, fileValue) == IF given = NotGiven THEN fileValue ELSE given

\* C29 as stated: in the effective configuration each of host, username,
\* port and keyfile has the value given on the command line when one was
\* given, and the config file's value otherwise (22 for a port set nowhere),
\* whenever loadConfig returns a configuration.
C29_Claim ==
    (fnArg.fn = "loadConfig" /\ fnOut.done /\ ~fnOut.r.err) =>
        /\ fnOut.r.cfg.Host = Precedence(fnArg.flags.Host, fnArg.file.Host)
        /\ fnOut.r.cfg.Username = Precedence(fnArg.flags.Username, fnArg.file.Username)
        /\ fnOut.r.cfg.KeyFile = Precedence(fnArg.flags.KeyFile, fnArg.file.KeyFile)
        /\ fnArg.flags.PortGiven => fnOut.r.cfg.Port = fnArg.flags.Port
        /\ ~fnArg.flags.PortGiven =>
              fnOut.r.cfg.Port = IF fnArg.file.Port = 0 THEN 22 ELSE fnArg.file.Port

\* ------------------------------------------------------ the ranking within a type (C30)

\* C30: for every pool list in every order the selected pool has at least the
\* free space of every available pool of its type, and of the available pools
\* of that type with that free space it is the earliest in the list.
C30_BestOfType ==
    poolOut > 0 =>
        \A i \in AvailableOfType(poolIn[poolOut].type) :
            /\ poolIn[poolOut].free >= poolIn[i].free
            /\ poolIn[i].free = poolIn[poolOut].free => poolOut <= i

\* A smaller ZFS pool first, then two ZFS pools with the same, largest free
\* space: the first of the two is selected.
C30_Witness ==
    /\ poolIn = <<Pool("pool", "ZFS", 1, TRUE), Pool("pool", "ZFS", 2, TRUE),
                  Pool("pool", "ZFS", 2, TRUE)>>
    /\ poolOut = 2

====
